---- MODULE Spec2Model ----
(***************************************************************************)
(* A model of chalk's inference table, unifier, query canonicalizer and    *)
(* environment elaboration.                                                *)
(*                                                                         *)
(* Terms are records that mirror the enums of ir/mod.rs.  A function of    *)
(* the code that mutates `&mut self` and returns Result<()> becomes an     *)
(* operator that takes the mutable state and returns the new state; the    *)
(* field `res` is "ok", "err" (an Err(..) return) or "panic" (a panic!,    *)
(* an unwrap of Err, an index out of bounds, an arithmetic underflow or a  *)
(* recursion that never returns).                                          *)
(***************************************************************************)
EXTENDS Integers, Sequences, FiniteSets, TLC

VARIABLES table, last, calls, program, env, set, stack, pc, returned,
          PROGRAM, frames, observed, outcome, arcs, envop, query, attempts,
          lowering, loaded, shell

vars == <<table, last, calls, program, env, set, stack, pc, returned,
          PROGRAM, frames, observed, outcome, arcs, envop, query, attempts,
          lowering, loaded, shell>>

tableVars == <<table, last, calls>>
elabVars == <<program, env, set, stack, pc, returned>>
tlsVars == <<PROGRAM, frames, observed, outcome>>
envVars == <<arcs, envop>>
matchVars == <<query, attempts>>
\* `prog` of run, and the last command with what it did.
replVars == <<loaded, shell>>
\* What the inference table and elaboration leave alone.
sideVars == <<tlsVars, envVars, matchVars, lowering, replVars>>
\* What the register of the current program leaves alone.
notTls == <<tableVars, elabVars, envVars, matchVars, lowering, replVars>>
\* What the operations on environments leave alone.
notEnv == <<tableVars, elabVars, tlsVars, matchVars, lowering, replVars>>
\* What the attempts to match a clause leave alone.
notMatch == <<tableVars, elabVars, tlsVars, envVars, lowering, replVars>>
\* What lowering leaves alone.
notLower == <<tableVars, elabVars, tlsVars, envVars, matchVars, replVars>>
\* What the commands of chalki leave alone.
notRepl == <<tableVars, elabVars, tlsVars, envVars, matchVars, lowering>>

(***************************************************************************)
(* Bounds of the model.                                                    *)
(***************************************************************************)
MaxCalls == 2
MaxTyVars == 3
MaxLifetimeVars == 1
MaxUniverse == 1
MaxClauses == 2
MaxDepth == 3

Min(x, y) == IF x < y THEN x ELSE y

\* `let r = value; body`: the value is computed once and the body reads it.
With(value, Body(_)) == Body(value)

\* Depth of recursion after which a computation is taken not to return.
\* Every returning computation of the model nests less deeply than this.
Fuel == 4 * (MaxTyVars + 2)

(***************************************************************************)
(* ir/mod.rs: terms.                                                       *)
(***************************************************************************)
ItemId(id) == [tag |-> "ItemId", id |-> id]
SkolemName(ui) == [tag |-> "ForAll", ui |-> ui]
AssociatedTypeName(id) == [tag |-> "AssociatedType", id |-> id]

TyVar(depth) == [tag |-> "Var", depth |-> depth]
Apply(name, parameters) == [tag |-> "Apply", name |-> name, parameters |-> parameters]
Projection(id, parameters) ==
    [tag |-> "Projection", associated_ty_id |-> id, parameters |-> parameters]
ForAll(n, ty) == [tag |-> "ForAll", num_binders |-> n, ty |-> ty]

LifetimeVar(depth) == [tag |-> "Var", depth |-> depth]
LifetimeForAll(ui) == [tag |-> "ForAll", ui |-> ui]

KrateVar(depth) == [tag |-> "Var", depth |-> depth]
KrateId(name) == [tag |-> "Id", name |-> name]

PTy(t) == [kind |-> "Ty", v |-> t]
PLifetime(l) == [kind |-> "Lifetime", v |-> l]
PKrate(k) == [kind |-> "Krate", v |-> k]

Environment(universe, clauses) == [universe |-> universe, clauses |-> clauses]
InEnvironment(environment, goal) == [environment |-> environment, goal |-> goal]

Implemented(trait_id, parameters) ==
    [tag |-> "Implemented", trait_id |-> trait_id, parameters |-> parameters]
Normalize(projection, ty) == [tag |-> "Normalize", projection |-> projection, ty |-> ty]
UnifyTys(a, b) == [tag |-> "UnifyTys", a |-> a, b |-> b]
LifetimeEq(a, b) == [tag |-> "LifetimeEq", a |-> a, b |-> b]

\* new_universe without the clauses of the receiver.
new_universe_without_clauses(e) == Environment(e.universe + 1, <<>>)

\* Environment::new_universe
new_universe(e) == Environment(e.universe + 1, e.clauses)

\* add_clauses that puts the given clauses in the place of the existing ones.
add_clauses_replace(e, clauses) == Environment(e.universe, clauses)

\* Environment::add_clauses
add_clauses(e, clauses) == Environment(e.universe, e.clauses \o clauses)

\* UniverseIndex::can_see
can_see(u, v) == v <= u

(***************************************************************************)
(* The inference table: one union-find table per sort.  Variable i of a    *)
(* sort is entry i + 1 of the sequences.  `value` is read at roots.        *)
(***************************************************************************)
Unbound(ui) == [tag |-> "Unbound", ui |-> ui]
Bound(val) == [tag |-> "Bound", val |-> val]

\* Bound(val), with a note the code does not keep: the universe the variable
\* had when it was bound.  No operation of the table reads it.
BoundIn(val, ui) == [tag |-> "Bound", val |-> val, ui |-> ui]

EmptyUF == [parent |-> <<>>, rank |-> <<>>, value |-> <<>>]

NumVars(uf) == Len(uf.parent)
HasVar(uf, v) == v \in 0..(NumVars(uf) - 1)

RECURSIVE find(_, _)
find(uf, v) == IF uf.parent[v + 1] = v THEN v ELSE find(uf, uf.parent[v + 1])

probe_value(uf, v) == uf.value[find(uf, v) + 1]

unioned(uf, a, b) == find(uf, a) = find(uf, b)

new_key(uf, val) ==
    [parent |-> Append(uf.parent, NumVars(uf)),
     rank |-> Append(uf.rank, 0),
     value |-> Append(uf.value, val)]

\* unify_values with the greater universe kept for two unbound values.
unify_values_max(a, b) ==
    IF a.tag = "Unbound" /\ b.tag = "Unbound"
    THEN [ok |-> TRUE, v |-> Unbound(IF a.ui > b.ui THEN a.ui ELSE b.ui)]
    ELSE IF a.tag = "Bound" /\ b.tag = "Unbound" THEN [ok |-> TRUE, v |-> a]
    ELSE IF a.tag = "Unbound" /\ b.tag = "Bound" THEN [ok |-> TRUE, v |-> b]
    ELSE [ok |-> FALSE, v |-> a]

\* impl UnifyValue for InferenceValue
unify_values(a, b) ==
    IF a.tag = "Unbound" /\ b.tag = "Unbound"
    THEN [ok |-> TRUE, v |-> Unbound(Min(a.ui, b.ui))]
    ELSE IF a.tag = "Bound" /\ b.tag = "Unbound" THEN [ok |-> TRUE, v |-> a]
    ELSE IF a.tag = "Unbound" /\ b.tag = "Bound" THEN [ok |-> TRUE, v |-> b]
    ELSE [ok |-> FALSE, v |-> a]

\* The result of a union-find update: the table, and whether it was Ok.
unify_var_value(uf, v, val) ==
    LET root == find(uf, v)
        c == unify_values(uf.value[root + 1], val)
    IN  IF c.ok
        THEN [ok |-> TRUE, uf |-> [uf EXCEPT !.value[root + 1] = c.v]]
        ELSE [ok |-> FALSE, uf |-> uf]

redirect_root(uf, new_rank, old_root, new_root, new_value) ==
    [uf EXCEPT !.parent[old_root + 1] = new_root,
               !.rank[new_root + 1] = new_rank,
               !.value[new_root + 1] = new_value]

unify_var_var(uf, a, b) ==
    LET root_a == find(uf, a)
        root_b == find(uf, b)
        c == unify_values(uf.value[root_a + 1], uf.value[root_b + 1])
        rank_a == uf.rank[root_a + 1]
        rank_b == uf.rank[root_b + 1]
    IN  IF root_a = root_b THEN [ok |-> TRUE, uf |-> uf]
        ELSE IF ~c.ok THEN [ok |-> FALSE, uf |-> uf]
        ELSE IF rank_a > rank_b
        THEN [ok |-> TRUE, uf |-> redirect_root(uf, rank_a, root_b, root_a, c.v)]
        ELSE IF rank_a < rank_b
        THEN [ok |-> TRUE, uf |-> redirect_root(uf, rank_b, root_a, root_b, c.v)]
        ELSE [ok |-> TRUE, uf |-> redirect_root(uf, rank_a + 1, root_a, root_b, c.v)]

EmptyTable == [ty |-> EmptyUF, lifetime |-> EmptyUF, krate |-> EmptyUF, snapshots |-> <<>>]

new_variable(t, ui) == [t EXCEPT !.ty = new_key(t.ty, Unbound(ui))]
new_lifetime_variable(t, ui) == [t EXCEPT !.lifetime = new_key(t.lifetime, Unbound(ui))]
new_krate_variable(t, ui) == [t EXCEPT !.krate = new_key(t.krate, Unbound(ui))]

None == [some |-> FALSE]
Some(x) == [some |-> TRUE, v |-> x]

\* normalize_shallow / normalize_lifetime / normalize_krate: the bound value
\* of a top-level variable, if any.  The variable looked up is the one whose
\* index is the term's depth.
normalize(uf, term) ==
    IF term.tag = "Var"
    THEN LET val == probe_value(uf, term.depth)
         IN  IF val.tag = "Bound" THEN Some(val.val) ELSE None
    ELSE None

\* A top-level variable whose index is not a key of the table: the lookup
\* indexes the table's vector out of bounds.
OutOfTable(uf, term) == term.tag = "Var" /\ ~HasVar(uf, term.depth)

\* What an observer of the table sees: per variable, its value (Bound(..) or
\* Unbound(universe)) and the variables it is unioned with.
Observable(uf) ==
    [v \in 0..(NumVars(uf) - 1) |->
        [value |-> probe_value(uf, v),
         class |-> {w \in 0..(NumVars(uf) - 1) : unioned(uf, v, w)}]]

ObservableTable(t) ==
    [ty |-> Observable(t.ty), lifetime |-> Observable(t.lifetime),
     krate |-> Observable(t.krate)]

(***************************************************************************)
(* fold: the structural rewrite.  A Var(i) with i >= binders is free and   *)
(* goes to the folder's hook with depth i - binders; the others are bound  *)
(* by a ForAll crossed on the way and are copied.                          *)
(***************************************************************************)
RECURSIVE up_shift_ty(_, _, _), up_shift_parameter(_, _, _)

\* Shifter::new(k), folded from `binders` crossed binders.
up_shift_var(term, k, binders) ==
    IF term.tag = "Var" /\ term.depth >= binders
    THEN [term EXCEPT !.depth = (term.depth - binders) + k + binders]
    ELSE term

up_shift_ty(ty, k, binders) ==
    CASE ty.tag = "Var" -> up_shift_var(ty, k, binders)
      [] ty.tag = "Apply" ->
            Apply(ty.name, [i \in 1..Len(ty.parameters) |->
                                up_shift_parameter(ty.parameters[i], k, binders)])
      [] ty.tag = "Projection" ->
            Projection(ty.associated_ty_id,
                       [i \in 1..Len(ty.parameters) |->
                            up_shift_parameter(ty.parameters[i], k, binders)])
      [] ty.tag = "ForAll" ->
            ForAll(ty.num_binders, up_shift_ty(ty.ty, k, binders + ty.num_binders))

up_shift_parameter(p, k, binders) ==
    IF p.kind = "Ty" THEN PTy(up_shift_ty(p.v, k, binders))
    ELSE [p EXCEPT !.v = up_shift_var(p.v, k, binders)]

RECURSIVE subst_ty(_, _, _), subst_parameter(_, _, _)

\* Subst::fold_free_var / fold_free_lifetime_var / fold_free_krate_var:
\* Var(i) for i < parameters.len() becomes parameters[i], shifted by the
\* binders crossed; a variable free in the whole binder moves down.
subst_var(parameters, term, binders) ==
    IF term.tag = "Var" /\ term.depth >= binders
    THEN LET depth == term.depth - binders
         IN  IF depth >= Len(parameters)
             THEN [term EXCEPT !.depth = depth - Len(parameters) + binders]
             ELSE up_shift_parameter(parameters[depth + 1], binders, 0).v
    ELSE term

subst_ty(parameters, ty, binders) ==
    CASE ty.tag = "Var" -> subst_var(parameters, ty, binders)
      [] ty.tag = "Apply" ->
            Apply(ty.name, [i \in 1..Len(ty.parameters) |->
                                subst_parameter(parameters, ty.parameters[i], binders)])
      [] ty.tag = "Projection" ->
            Projection(ty.associated_ty_id,
                       [i \in 1..Len(ty.parameters) |->
                            subst_parameter(parameters, ty.parameters[i], binders)])
      [] ty.tag = "ForAll" ->
            ForAll(ty.num_binders,
                   subst_ty(parameters, ty.ty, binders + ty.num_binders))

subst_parameter(parameters, p, binders) ==
    IF p.kind = "Ty" THEN PTy(subst_ty(parameters, p.v, binders))
    ELSE [p EXCEPT !.v = subst_var(parameters, p.v, binders)]

\* QuantifiedTy::subst
QuantifiedTy_subst(q, parameters) == subst_ty(parameters, q.ty, 0)

\* Subst::apply on a where-clause
subst_clause(parameters, wc) ==
    IF wc.tag = "Implemented"
    THEN Implemented(wc.trait_id,
                     [i \in 1..Len(wc.parameters) |->
                          subst_parameter(parameters, wc.parameters[i], 0)])
    ELSE Normalize(subst_ty(parameters, wc.projection, 0),
                   subst_ty(parameters, wc.ty, 0))

(***************************************************************************)
(* solve/infer/unify.rs                                                    *)
(***************************************************************************)
\* InferenceTable::snapshot / commit / rollback_to
snapshot(t) ==
    [t EXCEPT !.snapshots =
        Append(@, [ty |-> t.ty, lifetime |-> t.lifetime, krate |-> t.krate])]

commit(t) == [t EXCEPT !.snapshots = SubSeq(@, 1, Len(@) - 1)]

rollback_to(t) ==
    LET s == t.snapshots[Len(t.snapshots)]
    IN  [ty |-> s.ty, lifetime |-> s.lifetime, krate |-> s.krate,
         snapshots |-> SubSeq(t.snapshots, 1, Len(t.snapshots) - 1)]

\* Unifier::new
Unifier_new(t) ==
    [table |-> snapshot(t), goals |-> <<>>, constraints |-> <<>>,
     res |-> "ok", msg |-> ""]

Fail(u, msg) == [u EXCEPT !.res = "err", !.msg = msg]
Panic(u, msg) == [u EXCEPT !.res = "panic", !.msg = msg]

\* TypeName::universe_index; -1 stands for the failed assert!
TypeName_universe_index(name) ==
    IF name.tag = "ForAll"
    THEN (IF name.ui > 0 THEN name.ui ELSE -1)
    ELSE 0

OccursCheck_new(u, var, universe_index) ==
    [unifier |-> u, binders |-> 0, var |-> var, universe_index |-> universe_index]

OcFail(oc, msg) == [oc EXCEPT !.unifier = Fail(@, msg)]
OcPanic(oc, msg) == [oc EXCEPT !.unifier = Panic(@, msg)]

\* universe_check, with <= for <.
universe_check_le(oc, application_universe_index) ==
    IF oc.universe_index <= application_universe_index
    THEN OcFail(oc, "incompatible universes")
    ELSE oc

universe_check(oc, application_universe_index) ==
    IF oc.universe_index < application_universe_index
    THEN OcFail(oc, "incompatible universes")
    ELSE oc

RECURSIVE check_ty(_, _, _), check_parameters(_, _, _, _)

check_parameter(oc, arg, fuel) ==
    CASE arg.kind = "Ty" -> check_ty(oc, arg.v, fuel)
      [] arg.kind = "Lifetime" -> oc
      [] arg.kind = "Krate" -> OcPanic(oc, "krate used as parameter to a type")

\* `for parameter in parameters { self.check_parameter(parameter)?; }`
check_parameters(oc, parameters, i, fuel) ==
    IF i > Len(parameters) \/ oc.unifier.res # "ok" THEN oc
    ELSE check_parameters(check_parameter(oc, parameters[i], fuel),
                          parameters, i + 1, fuel)

check_apply(oc, apply, fuel) ==
    With(TypeName_universe_index(apply.name), LAMBDA ui :
        IF ui < 0 THEN OcPanic(oc, "assertion failed: universe.counter > 0")
        ELSE With(universe_check(oc, ui), LAMBDA oc1 :
                IF oc1.unifier.res # "ok" THEN oc1
                ELSE check_parameters(oc1, apply.parameters, 1, fuel)))

check_quantified(oc, quantified_ty, fuel) ==
    With(check_ty([oc EXCEPT !.binders = @ + quantified_ty.num_binders],
                  quantified_ty.ty, fuel),
         LAMBDA oc1 :
            IF oc1.unifier.res # "ok" THEN oc1
            ELSE [oc1 EXCEPT !.binders = @ - quantified_ty.num_binders])

\* The Ty::Var(depth) arm of check_ty.
check_var(oc, depth) ==
    IF depth < oc.binders THEN OcPanic(oc, "attempt to subtract with overflow")
    ELSE LET v == depth - oc.binders
             val == probe_value(oc.unifier.table.ty, v)
         IN  IF val.tag = "Bound"
             THEN OcPanic(oc, "expected parameter to be normalized")
             ELSE IF unioned(oc.unifier.table.ty, v, oc.var)
             THEN OcFail(oc, "cycle during unification")
             ELSE IF oc.universe_index < val.ui
             THEN LET r == unify_var_value(oc.unifier.table.ty, v,
                                           Unbound(oc.universe_index))
                  IN  IF r.ok THEN [oc EXCEPT !.unifier.table.ty = r.uf]
                      ELSE OcPanic(oc, "unwrap")
             ELSE oc

check_ty(oc, parameter, fuel) ==
    IF fuel = 0 THEN OcPanic(oc, "stack overflow")
    ELSE IF OutOfTable(oc.unifier.table.ty, parameter)
    THEN OcPanic(oc, "index out of bounds")
    ELSE LET n_parameter == normalize(oc.unifier.table.ty, parameter)
         IN  IF n_parameter.some THEN check_ty(oc, n_parameter.v, fuel - 1)
             ELSE CASE parameter.tag = "Apply" -> check_apply(oc, parameter, fuel - 1)
                    [] parameter.tag = "ForAll" ->
                          check_quantified(oc, parameter, fuel - 1)
                    [] parameter.tag = "Var" -> check_var(oc, parameter.depth)
                    [] parameter.tag = "Projection" ->
                          check_parameters(oc, parameter.parameters, 1, fuel - 1)

unify_var_ty(u, var, ty, fuel) ==
    With(probe_value(u.table.ty, var), LAMBDA val :
        IF val.tag = "Bound" THEN Panic(u, "unify_var_apply invoked on bound var")
        ELSE With(check_ty(OccursCheck_new(u, var, val.ui), ty, fuel).unifier, LAMBDA u1 :
                IF u1.res # "ok" THEN u1
                ELSE With(unify_var_value(u1.table.ty, var, BoundIn(ty, val.ui)),
                          LAMBDA r :
                            IF r.ok THEN [u1 EXCEPT !.table.ty = r.uf]
                            ELSE Panic(u1, "unwrap"))))

\* The skolem lifetimes of the universes e.universe + 1 .. e.universe + n,
\* each from one more call of new_universe.
SkolemLifetimes(e, n) == [i \in 1..n |-> PLifetime(LifetimeForAll(e.universe + i))]

RECURSIVE new_universes(_, _)
new_universes(e, n) == IF n = 0 THEN e ELSE new_universes(new_universe(e), n - 1)

RECURSIVE new_lifetime_variables(_, _, _)
new_lifetime_variables(t, ui, n) ==
    IF n = 0 THEN t ELSE new_lifetime_variables(new_lifetime_variable(t, ui), ui, n - 1)

\* unify_forall_tys with the fresh variables made in the universe of the
\* environment of the call.
unify_forall_tys_outer(u, e, ty1, ty2) ==
    LET environment == new_universes(e, ty1.num_binders)
        lifetimes1 == SkolemLifetimes(e, ty1.num_binders)
        first == NumVars(u.table.lifetime)
        t1 == new_lifetime_variables(u.table, e.universe, ty2.num_binders)
        lifetimes2 == [i \in 1..ty2.num_binders |-> PLifetime(LifetimeVar(first + i - 1))]
        goal == InEnvironment(environment,
                              UnifyTys(QuantifiedTy_subst(ty1, lifetimes1),
                                       QuantifiedTy_subst(ty2, lifetimes2)))
    IN  [u EXCEPT !.table = t1, !.goals = Append(@, goal)]

unify_forall_tys(u, e, ty1, ty2) ==
    LET environment == new_universes(e, ty1.num_binders)
        lifetimes1 == SkolemLifetimes(e, ty1.num_binders)
        first == NumVars(u.table.lifetime)
        t1 == new_lifetime_variables(u.table, environment.universe, ty2.num_binders)
        lifetimes2 == [i \in 1..ty2.num_binders |-> PLifetime(LifetimeVar(first + i - 1))]
        goal == InEnvironment(environment,
                              UnifyTys(QuantifiedTy_subst(ty1, lifetimes1),
                                       QuantifiedTy_subst(ty2, lifetimes2)))
    IN  [u EXCEPT !.table = t1, !.goals = Append(@, goal)]

unify_projection_ty(u, e, proj, ty) ==
    [u EXCEPT !.goals = Append(@, InEnvironment(e, Normalize(proj, ty)))]

\* unify_projection_tys with the fresh variable made in the root universe.
unify_projection_tys_root(u, e, proj1, proj2) ==
    LET var == TyVar(NumVars(u.table.ty))
        u1 == [u EXCEPT !.table = new_variable(@, 0)]
    IN  unify_projection_ty(unify_projection_ty(u1, e, proj1, var), e, proj2, var)

unify_projection_tys(u, e, proj1, proj2) ==
    LET var == TyVar(NumVars(u.table.ty))
        u1 == [u EXCEPT !.table = new_variable(@, e.universe)]
    IN  unify_projection_ty(unify_projection_ty(u1, e, proj1, var), e, proj2, var)

\* unify_forall_apply with the sub-goal left in the environment of the call.
unify_forall_apply_outer(u, e, ty1, ty2) ==
    LET lifetimes1 == SkolemLifetimes(e, ty1.num_binders)
        goal == InEnvironment(e, UnifyTys(QuantifiedTy_subst(ty1, lifetimes1), ty2))
    IN  [u EXCEPT !.goals = Append(@, goal)]

unify_forall_apply(u, e, ty1, ty2) ==
    LET environment == new_universes(e, ty1.num_binders)
        lifetimes1 == SkolemLifetimes(e, ty1.num_binders)
        goal == InEnvironment(environment,
                              UnifyTys(QuantifiedTy_subst(ty1, lifetimes1), ty2))
    IN  [u EXCEPT !.goals = Append(@, goal)]

RECURSIVE unify_krate_krate(_, _, _, _)
unify_krate_krate(u, a, b, fuel) ==
    IF fuel = 0 THEN Panic(u, "stack overflow")
    ELSE IF OutOfTable(u.table.krate, a) THEN Panic(u, "index out of bounds")
    ELSE IF normalize(u.table.krate, a).some
    THEN unify_krate_krate(u, normalize(u.table.krate, a).v, b, fuel - 1)
    ELSE IF OutOfTable(u.table.krate, b) THEN Panic(u, "index out of bounds")
    ELSE IF normalize(u.table.krate, b).some
    THEN unify_krate_krate(u, a, normalize(u.table.krate, b).v, fuel - 1)
    ELSE LET result ==
                CASE a.tag = "Var" /\ b.tag = "Var" ->
                        unify_var_var(u.table.krate, a.depth, b.depth)
                  [] a.tag = "Var" /\ b.tag = "Id" ->
                        unify_var_value(u.table.krate, a.depth, Bound(b))
                  [] a.tag = "Id" /\ b.tag = "Var" ->
                        unify_var_value(u.table.krate, b.depth, Bound(a))
                  [] a.tag = "Id" /\ b.tag = "Id" -> [ok |-> TRUE, uf |-> u.table.krate]
         IN  IF a.tag = "Id" /\ b.tag = "Id" /\ a # b
             THEN Fail(u, "krate not equal")
             ELSE IF result.ok THEN [u EXCEPT !.table.krate = result.uf]
             ELSE Fail(u, "cannot unify")

\* The arm of a variable and a skolem lifetime, with the variable bound
\* whatever its universe.
unify_lifetime_var_forall_unchecked(u, e, a, b) ==
    LET depth == IF a.tag = "Var" THEN a.depth ELSE b.depth
        ui == IF a.tag = "Var" THEN b.ui ELSE a.ui
        var_ui == probe_value(u.table.lifetime, depth).ui
        r == unify_var_value(u.table.lifetime, depth, BoundIn(LifetimeForAll(ui), var_ui))
    IN  IF r.ok THEN [u EXCEPT !.table.lifetime = r.uf] ELSE Panic(u, "unwrap")

\* unify_lifetime_lifetime, the arm (Var, ForAll) | (ForAll, Var), on
\* normalized lifetimes.
unify_lifetime_var_forall(u, e, a, b) ==
    LET depth == IF a.tag = "Var" THEN a.depth ELSE b.depth
        ui == IF a.tag = "Var" THEN b.ui ELSE a.ui
        var_ui == probe_value(u.table.lifetime, depth).ui
        r == unify_var_value(u.table.lifetime, depth, BoundIn(LifetimeForAll(ui), var_ui))
    IN  IF can_see(var_ui, ui)
        THEN (IF r.ok THEN [u EXCEPT !.table.lifetime = r.uf] ELSE Panic(u, "unwrap"))
        ELSE [u EXCEPT !.constraints = Append(@, InEnvironment(e, LifetimeEq(a, b)))]

\* The arm of two skolem lifetimes, failing when they differ.
unify_lifetime_forall_forall_strict(u, e, a, b) ==
    IF a # b THEN Fail(u, "lifetimes differ") ELSE u

\* unify_lifetime_lifetime, the arm (ForAll, ForAll).
unify_lifetime_forall_forall(u, e, a, b) ==
    IF a # b
    THEN [u EXCEPT !.constraints = Append(@, InEnvironment(e, LifetimeEq(a, b)))]
    ELSE u

RECURSIVE unify_lifetime_lifetime(_, _, _, _, _)
unify_lifetime_lifetime(u, e, a, b, fuel) ==
    IF fuel = 0 THEN Panic(u, "stack overflow")
    ELSE IF OutOfTable(u.table.lifetime, a) THEN Panic(u, "index out of bounds")
    ELSE IF normalize(u.table.lifetime, a).some
    THEN unify_lifetime_lifetime(u, e, normalize(u.table.lifetime, a).v, b, fuel - 1)
    ELSE IF OutOfTable(u.table.lifetime, b) THEN Panic(u, "index out of bounds")
    ELSE IF normalize(u.table.lifetime, b).some
    THEN unify_lifetime_lifetime(u, e, a, normalize(u.table.lifetime, b).v, fuel - 1)
    ELSE CASE a.tag = "Var" /\ b.tag = "Var" ->
                LET r == unify_var_var(u.table.lifetime, a.depth, b.depth)
                IN  IF r.ok THEN [u EXCEPT !.table.lifetime = r.uf]
                    ELSE Panic(u, "unwrap")
           [] a.tag # b.tag -> unify_lifetime_var_forall(u, e, a, b)
           [] a.tag = "ForAll" /\ b.tag = "ForAll" -> unify_lifetime_forall_forall(u, e, a, b)

RECURSIVE unify_ty_ty(_, _, _, _, _), zip_parameters(_, _, _, _, _, _)

\* Zip for Parameter
zip_parameter(u, e, a, b, fuel) ==
    IF a.kind # b.kind THEN Fail(u, "cannot zip")
    ELSE CASE a.kind = "Ty" -> unify_ty_ty(u, e, a.v, b.v, fuel)
           [] a.kind = "Lifetime" -> unify_lifetime_lifetime(u, e, a.v, b.v, fuel)
           [] a.kind = "Krate" -> unify_krate_krate(u, a.v, b.v, fuel)

\* Zip for [T]: the pairs in order, stopping at the first error.
zip_parameters(u, e, as, bs, i, fuel) ==
    IF i > Len(as) \/ u.res # "ok" THEN u
    ELSE zip_parameters(zip_parameter(u, e, as[i], bs[i], fuel), e, as, bs, i + 1, fuel)

\* Zip for ApplicationTy: the name, then the parameters.
zip_apply(u, e, apply1, apply2, fuel) ==
    IF apply1.name # apply2.name THEN Fail(u, "cannot zip")
    ELSE IF Len(apply1.parameters) # Len(apply2.parameters) THEN Fail(u, "cannot zip")
    ELSE zip_parameters(u, e, apply1.parameters, apply2.parameters, 1, fuel)

unify_ty_ty(u, e, a, b, fuel) ==
    IF fuel = 0 THEN Panic(u, "stack overflow")
    ELSE IF OutOfTable(u.table.ty, a) THEN Panic(u, "index out of bounds")
    ELSE IF normalize(u.table.ty, a).some
    THEN unify_ty_ty(u, e, normalize(u.table.ty, a).v, b, fuel - 1)
    ELSE IF OutOfTable(u.table.ty, b) THEN Panic(u, "index out of bounds")
    ELSE IF normalize(u.table.ty, b).some
    THEN unify_ty_ty(u, e, a, normalize(u.table.ty, b).v, fuel - 1)
    ELSE CASE a.tag = "Var" /\ b.tag = "Var" ->
                LET r == unify_var_var(u.table.ty, a.depth, b.depth)
                IN  IF r.ok THEN [u EXCEPT !.table.ty = r.uf]
                    ELSE Panic(u, "unification of two unbound variables cannot fail")
           [] a.tag = "Var" /\ b.tag \in {"Apply", "ForAll"} ->
                unify_var_ty(u, a.depth, b, fuel - 1)
           [] a.tag \in {"Apply", "ForAll"} /\ b.tag = "Var" ->
                unify_var_ty(u, b.depth, a, fuel - 1)
           [] a.tag = "ForAll" /\ b.tag = "ForAll" -> unify_forall_tys(u, e, a, b)
           [] a.tag = "ForAll" /\ b.tag = "Apply" -> unify_forall_apply(u, e, a, b)
           [] a.tag = "Apply" /\ b.tag = "ForAll" -> unify_forall_apply(u, e, b, a)
           [] a.tag = "Apply" /\ b.tag = "Apply" -> zip_apply(u, e, a, b, fuel - 1)
           [] a.tag = "Projection" /\ b.tag = "Projection" ->
                unify_projection_tys(u, e, a, b)
           [] a.tag = "Projection" /\ b.tag # "Projection" ->
                unify_projection_ty(u, e, a, b)
           [] a.tag # "Projection" /\ b.tag = "Projection" ->
                unify_projection_ty(u, e, b, a)

\* Zip for WhereClause: the same variant, the same trait or associated
\* type, then the parameters, and for a Normalize the type.
zip_where_clause(u, e, a, b, fuel) ==
    IF a.tag # b.tag THEN Fail(u, "cannot zip")
    ELSE IF a.tag = "Implemented"
    THEN (IF a.trait_id # b.trait_id \/ Len(a.parameters) # Len(b.parameters)
          THEN Fail(u, "cannot zip")
          ELSE zip_parameters(u, e, a.parameters, b.parameters, 1, fuel))
    ELSE (IF \/ a.projection.associated_ty_id # b.projection.associated_ty_id
             \/ Len(a.projection.parameters) # Len(b.projection.parameters)
          THEN Fail(u, "cannot zip")
          ELSE With(zip_parameters(u, e, a.projection.parameters,
                                   b.projection.parameters, 1, fuel),
                    LAMBDA zipped :
                        IF zipped.res # "ok" THEN zipped
                        ELSE unify_ty_ty(zipped, e, a.ty, b.ty, fuel)))

\* Zip::zip_with for the sorts of term unify is called on.
zip_with(u, e, sort, a, b) ==
    CASE sort = "Ty" -> unify_ty_ty(u, e, a, b, Fuel)
      [] sort = "Lifetime" -> unify_lifetime_lifetime(u, e, a, b, Fuel)
      [] sort = "Krate" -> unify_krate_krate(u, a, b, Fuel)
      [] sort = "WhereClause" -> zip_where_clause(u, e, a, b, Fuel)

\* Unifier::rollback that restores the table and leaves the snapshot open.
Unifier_rollback_open(u) == [u EXCEPT !.table = snapshot(rollback_to(@))]

\* Unifier::commit and Unifier::rollback
Unifier_commit(u) == [u EXCEPT !.table = commit(@)]
Unifier_rollback(u) == [u EXCEPT !.table = rollback_to(@)]

\* unify with the Err arm returning without the rollback.
unify_without_rollback(t, e, sort, a, b) ==
    With(zip_with(Unifier_new(t), e, sort, a, b), LAMBDA zipped :
        [res |-> zipped.res, msg |-> zipped.msg,
         table |-> IF zipped.res = "ok" THEN Unifier_commit(zipped).table
                   ELSE zipped.table,
         zipped |-> zipped.table,
         goals |-> IF zipped.res = "ok" THEN zipped.goals ELSE <<>>,
         constraints |-> IF zipped.res = "ok" THEN zipped.constraints ELSE <<>>])

\* InferenceTable::unify.  `zipped` is the unifier as zip_with left it; a
\* panic unwinds, and neither commit nor rollback runs.
unify(t, e, sort, a, b) ==
    With(zip_with(Unifier_new(t), e, sort, a, b), LAMBDA zipped :
        [res |-> zipped.res, msg |-> zipped.msg,
         table |-> CASE zipped.res = "ok" -> Unifier_commit(zipped).table
                     [] zipped.res = "err" -> Unifier_rollback(zipped).table
                     [] zipped.res = "panic" -> zipped.table,
         zipped |-> zipped.table,
         goals |-> IF zipped.res = "ok" THEN zipped.goals ELSE <<>>,
         constraints |-> IF zipped.res = "ok" THEN zipped.constraints ELSE <<>>])

(***************************************************************************)
(* solve/infer/query.rs: the Querifier.  Its state is free_vars; a fold     *)
(* returns the state, the folded term `out` and `res`.                      *)
(***************************************************************************)
EmptyBinders == [tys |-> <<>>, lifetimes |-> <<>>, krates |-> <<>>]

\* The index of x in the sequence, or 0.
Position(seq, x) ==
    IF \E i \in 1..Len(seq) : seq[i] = x
    THEN CHOOSE i \in 1..Len(seq) : seq[i] = x /\ \A j \in 1..(i - 1) : seq[j] # x
    ELSE 0

\* find_idx, with next_index read after the push.
find_idx_after_push(vs, free_var) ==
    IF Position(vs, free_var) > 0
    THEN [vars |-> vs, idx |-> Position(vs, free_var) - 1]
    ELSE [vars |-> Append(vs, free_var), idx |-> Len(vs) + 1]

\* find_idx in Querifier::add
find_idx(vs, free_var) ==
    IF Position(vs, free_var) > 0
    THEN [vars |-> vs, idx |-> Position(vs, free_var) - 1]
    ELSE [vars |-> Append(vs, free_var), idx |-> Len(vs)]

\* Querifier::add for a variable of the given sort
add(free_vars, sort, free_var) ==
    CASE sort = "Ty" ->
            LET r == find_idx(free_vars.tys, free_var)
            IN  [free_vars |-> [free_vars EXCEPT !.tys = r.vars], idx |-> r.idx]
      [] sort = "Lifetime" ->
            LET r == find_idx(free_vars.lifetimes, free_var)
            IN  [free_vars |-> [free_vars EXCEPT !.lifetimes = r.vars], idx |-> r.idx]
      [] sort = "Krate" ->
            LET r == find_idx(free_vars.krates, free_var)
            IN  [free_vars |-> [free_vars EXCEPT !.krates = r.vars], idx |-> r.idx]

QOk(free_vars, out) == [free_vars |-> free_vars, out |-> out, res |-> "ok"]
QPanic(free_vars) == [free_vars |-> free_vars, out |-> None, res |-> "panic"]

UFOf(t, sort) ==
    CASE sort = "Ty" -> t.ty
      [] sort = "Lifetime" -> t.lifetime
      [] sort = "Krate" -> t.krate

\* fold_free_lifetime_var and fold_free_krate_var.  The bound value of a
\* lifetime or krate variable holds no variable, and its fold is itself.
fold_free_leaf_var(t, free_vars, sort, depth, binders) ==
    With(UFOf(t, sort), LAMBDA uf :
        IF ~HasVar(uf, depth) THEN QPanic(free_vars)
        ELSE With(probe_value(uf, depth), LAMBDA val :
                IF val.tag = "Bound" THEN QOk(free_vars, val.val)
                ELSE With(add(free_vars, sort, find(uf, depth)), LAMBDA r :
                        QOk(r.free_vars, [tag |-> "Var", depth |-> r.idx + binders]))))

RECURSIVE q_fold_ty(_, _, _, _, _, _), q_fold_parameters(_, _, _, _, _, _, _, _)

\* fold_free_var, with the canonical index not moved under the binders.
fold_free_var_unshifted(t, free_vars, depth, binders, fuel) ==
    IF ~HasVar(t.ty, depth) THEN QPanic(free_vars)
    ELSE With(probe_value(t.ty, depth), LAMBDA val :
            IF val.tag = "Bound"
            THEN q_fold_ty(t, free_vars, val.val, 0, binders, fuel)
            ELSE With(add(free_vars, "Ty", find(t.ty, depth)), LAMBDA r :
                    QOk(r.free_vars, TyVar(r.idx))))

\* fold_free_var, with the variable itself in place of its root.
fold_free_var_no_root(t, free_vars, depth, binders, fuel) ==
    IF ~HasVar(t.ty, depth) THEN QPanic(free_vars)
    ELSE With(probe_value(t.ty, depth), LAMBDA val :
            IF val.tag = "Bound"
            THEN q_fold_ty(t, free_vars, val.val, 0, binders, fuel)
            ELSE With(add(free_vars, "Ty", depth), LAMBDA r :
                    QOk(r.free_vars, TyVar(r.idx + binders))))

\* Querifier::fold_free_var
fold_free_var(t, free_vars, depth, binders, fuel) ==
    IF ~HasVar(t.ty, depth) THEN QPanic(free_vars)
    ELSE With(probe_value(t.ty, depth), LAMBDA val :
            IF val.tag = "Bound"
            THEN q_fold_ty(t, free_vars, val.val, 0, binders, fuel)
            ELSE With(add(free_vars, "Ty", find(t.ty, depth)), LAMBDA r :
                    QOk(r.free_vars, TyVar(r.idx + binders))))

\* A lifetime or krate folded by (Querifier, Shifter::new(shift)).
q_fold_leaf(t, free_vars, sort, term, binders, shift) ==
    IF term.tag = "Var" /\ term.depth >= binders
    THEN With(fold_free_leaf_var(t, free_vars, sort, term.depth - binders, binders),
              LAMBDA r :
                IF r.res # "ok" THEN r
                ELSE QOk(r.free_vars, up_shift_var(r.out, shift, binders)))
    ELSE QOk(free_vars, term)

\* ty.fold_with(&mut (querifier, Shifter::new(shift)), binders); the Querifier
\* alone is the pair with Shifter::new(0).
q_fold_ty(t, free_vars, ty, binders, shift, fuel) ==
    IF fuel = 0 THEN QPanic(free_vars)
    ELSE CASE ty.tag = "Var" ->
                IF ty.depth >= binders
                THEN With(fold_free_var(t, free_vars, ty.depth - binders, binders,
                                        fuel - 1),
                          LAMBDA r :
                            IF r.res # "ok" THEN r
                            ELSE QOk(r.free_vars, up_shift_ty(r.out, shift, binders)))
                ELSE QOk(free_vars, ty)
           [] ty.tag \in {"Apply", "Projection"} ->
                With(q_fold_parameters(t, free_vars, ty.parameters, 1, <<>>,
                                       binders, shift, fuel - 1),
                     LAMBDA r :
                        IF r.res # "ok" THEN r
                        ELSE QOk(r.free_vars, [ty EXCEPT !.parameters = r.out]))
           [] ty.tag = "ForAll" ->
                With(q_fold_ty(t, free_vars, ty.ty, binders + ty.num_binders,
                               shift, fuel - 1),
                     LAMBDA r :
                        IF r.res # "ok" THEN r
                        ELSE QOk(r.free_vars, ForAll(ty.num_binders, r.out)))

\* The parameters from the i-th on, in order; `done` are the folded ones.
q_fold_parameters(t, free_vars, parameters, i, done, binders, shift, fuel) ==
    IF i > Len(parameters) THEN QOk(free_vars, done)
    ELSE With(IF parameters[i].kind = "Ty"
              THEN q_fold_ty(t, free_vars, parameters[i].v, binders, shift, fuel)
              ELSE q_fold_leaf(t, free_vars, parameters[i].kind, parameters[i].v,
                               binders, shift),
              LAMBDA r :
                IF r.res # "ok" THEN r
                ELSE q_fold_parameters(t, r.free_vars, parameters, i + 1,
                                       Append(done, [parameters[i] EXCEPT !.v = r.out]),
                                       binders, shift, fuel))

\* A type local to a krate: a value with variables of all three sorts.
TyLocalTo(ty, krate) == [tag |-> "TyLocalTo", value |-> ty, krate |-> krate]

\* value.fold_with(&mut querifier, 0) for a type or a TyLocalTo
q_fold_value(t, value) ==
    IF value.tag = "TyLocalTo"
    THEN With(q_fold_ty(t, EmptyBinders, value.value, 0, 0, Fuel), LAMBDA r1 :
            IF r1.res # "ok" THEN r1
            ELSE With(q_fold_leaf(t, r1.free_vars, "Krate", value.krate, 0, 0),
                      LAMBDA r2 :
                        IF r2.res # "ok" THEN r2
                        ELSE QOk(r2.free_vars, TyLocalTo(r1.out, r2.out))))
    ELSE q_fold_ty(t, EmptyBinders, value, 0, 0, Fuel)

\* Querifier::into_binders: the universe of each free variable; it panics if
\* one of them is bound.
into_binders(t, free_vars) ==
    LET universes(uf, vs) == [i \in 1..Len(vs) |-> probe_value(uf, vs[i]).ui]
        unbound(uf, vs) == \A i \in 1..Len(vs) : probe_value(uf, vs[i]).tag = "Unbound"
    IN  IF /\ unbound(t.ty, free_vars.tys)
           /\ unbound(t.lifetime, free_vars.lifetimes)
           /\ unbound(t.krate, free_vars.krates)
        THEN [res |-> "ok",
              binders |-> [tys |-> universes(t.ty, free_vars.tys),
                           lifetimes |-> universes(t.lifetime, free_vars.lifetimes),
                           krates |-> universes(t.krate, free_vars.krates)]]
        ELSE [res |-> "panic", binders |-> EmptyBinders]

\* InferenceTable::make_query
make_query(t, value) ==
    With(q_fold_value(t, value), LAMBDA r :
        IF r.res # "ok" THEN [res |-> "panic", query |-> None]
        ELSE With(into_binders(t, r.free_vars), LAMBDA b :
                IF b.res # "ok" THEN [res |-> "panic", query |-> None]
                ELSE [res |-> "ok",
                      query |-> [value |-> r.out, binders |-> b.binders]]))

\* Query.binders as one sequence of ParameterKind<UniverseIndex>: the types,
\* then the lifetimes, then the krates.
FlatBinders(binders) ==
    [i \in 1..Len(binders.tys) |-> [kind |-> "Ty", v |-> binders.tys[i]]]
        \o [i \in 1..Len(binders.lifetimes) |->
                [kind |-> "Lifetime", v |-> binders.lifetimes[i]]]
        \o [i \in 1..Len(binders.krates) |-> [kind |-> "Krate", v |-> binders.krates[i]]]

(***************************************************************************)
(* The terms the calls of the model are made on.                           *)
(***************************************************************************)
Universes == 0..MaxUniverse

Bar == Apply(ItemId("Bar"), <<>>)
Foo(x) == Apply(ItemId("Foo"), <<PTy(x)>>)
Ref(l) == Apply(ItemId("Ref"), <<PLifetime(l)>>)
Pair(x, y) == Apply(ItemId("Pair"), <<PTy(x), PTy(y)>>)
Skolem(ui) == Apply(SkolemName(ui), <<>>)
Item(x) == Projection("Item", <<PTy(x)>>)

Lifetimes ==
    {LifetimeVar(i) : i \in 0..(MaxLifetimeVars - 1)}
        \cup {LifetimeForAll(ui) : ui \in 1..MaxUniverse}

Krates == {KrateVar(0), KrateId("A"), KrateId("B")}

TyVars == {TyVar(i) : i \in 0..(MaxTyVars - 1)}

\* forall<'a> Foo<?v>, forall<'a> Ref<'a>: under the binder, Var(0) is 'a and
\* the inference variable ?v is Var(v + 1).
Quantified ==
    {ForAll(1, Foo(TyVar(i))) : i \in 1..MaxTyVars}
        \cup {ForAll(1, Ref(LifetimeVar(0)))}

Tys ==
    TyVars \cup {Bar} \cup {Skolem(ui) : ui \in 1..MaxUniverse}
        \cup {Foo(x) : x \in {TyVar(0), TyVar(1)}}
        \cup {Foo(Skolem(ui)) : ui \in 1..MaxUniverse}
        \cup {Ref(l) : l \in Lifetimes}
        \cup {Pair(TyVar(0), Bar), Pair(Bar, Skolem(1))}
        \cup Quantified
        \cup {Item(TyVar(0))}

RECURSIVE ScopedTy(_, _, _), ScopedParameter(_, _, _)

\* Every variable of the term is a variable of the table: under `binders`
\* crossed binders Var(i) is bound for i < binders, and is inference variable
\* i - binders otherwise.  The binders of a ForAll bind lifetimes.
ScopedVar(uf, term, binders) ==
    term.tag = "Var" => (term.depth < binders \/ HasVar(uf, term.depth - binders))

ScopedTy(t, ty, binders) ==
    CASE ty.tag = "Var" -> ty.depth >= binders /\ HasVar(t.ty, ty.depth - binders)
      [] ty.tag \in {"Apply", "Projection"} ->
            \A i \in 1..Len(ty.parameters) : ScopedParameter(t, ty.parameters[i], binders)
      [] ty.tag = "ForAll" -> ScopedTy(t, ty.ty, binders + ty.num_binders)

ScopedParameter(t, p, binders) ==
    CASE p.kind = "Ty" -> ScopedTy(t, p.v, binders)
      [] p.kind = "Lifetime" -> ScopedVar(t.lifetime, p.v, binders)
      [] p.kind = "Krate" -> ScopedVar(t.krate, p.v, binders)

Scoped(t, sort, term) ==
    CASE sort = "Ty" -> ScopedTy(t, term, 0)
      [] sort = "Lifetime" -> ScopedVar(t.lifetime, term, 0)
      [] sort = "Krate" -> ScopedVar(t.krate, term, 0)

TermsOf(sort) ==
    CASE sort = "Ty" -> Tys
      [] sort = "Lifetime" -> Lifetimes
      [] sort = "Krate" -> Krates

RefTo(l, x) == Apply(ItemId("RefTo"), <<PLifetime(l), PTy(x)>>)

\* The values make_query is called on.
QueryValues ==
    Tys \cup {Pair(TyVar(0), TyVar(1)), Pair(TyVar(1), TyVar(0)), Pair(TyVar(2), TyVar(0))}
        \cup {RefTo(LifetimeVar(0), TyVar(1)), ForAll(1, RefTo(LifetimeVar(1), TyVar(1)))}
        \cup {TyLocalTo(ty, k) : ty \in {TyVar(0), RefTo(LifetimeVar(0), TyVar(1))},
                                k \in {KrateVar(0), KrateId("A")}}

ScopedValue(t, value) ==
    IF value.tag = "TyLocalTo"
    THEN ScopedTy(t, value.value, 0) /\ ScopedVar(t.krate, value.krate, 0)
    ELSE ScopedTy(t, value, 0)

RECURSIVE new_keys(_, _, _)
new_keys(uf, universes, i) ==
    IF i > Len(universes) THEN uf
    ELSE new_keys(new_key(uf, Unbound(universes[i])), universes, i + 1)

\* InferenceTable::new_with_vars: one unbound variable per binder, of the
\* binder's sort and universe, in order.
new_with_vars(binders) ==
    [ty |-> new_keys(EmptyUF, binders.tys, 1),
     lifetime |-> new_keys(EmptyUF, binders.lifetimes, 1),
     krate |-> new_keys(EmptyUF, binders.krates, 1),
     snapshots |-> <<>>]

\* The binders the tables of the model are made from.
BinderChoices ==
    [tys : [1..MaxTyVars -> Universes],
     lifetimes : [1..MaxLifetimeVars -> Universes],
     krates : {<<0>>}]

(***************************************************************************)
(* The state machine of an inference table and the calls made on it.       *)
(* `last` records the call that has just returned, until the caller is     *)
(* done with its result.                                                   *)
(***************************************************************************)
NoCall == [op |-> "none"]

\* tls.rs L6-8: the register of a thread that has made no call.
TlsIdle ==
    /\ PROGRAM = None
    /\ frames = <<>>
    /\ observed = <<>>
    /\ outcome = "none"

\* Environment::new(), the one environment before any other is made, held
\* through an Arc: arcs[i] is what the i-th Arc points to.
EnvIdle ==
    /\ arcs = <<Environment(0, <<>>)>>
    /\ envop = [op |-> "none"]

\* No query is being solved.
NoQuery == [value |-> "none", binders |-> "none"]

MatchIdle ==
    /\ query = NoQuery
    /\ attempts = <<>>

\* No program is being lowered.
LowerIdle == lowering = [pc |-> "idle"]

\* chalki at its first prompt: `let mut prog = None`, no command so far.
NoCommand ==
    [history |-> 0, command |-> <<>>, pre |-> None, res |-> "none", msg |-> "",
     solver |-> FALSE]
ReplIdle == loaded = None /\ shell = NoCommand

\* The parts of the state a specification does not work on.
SideIdle == TlsIdle /\ EnvIdle /\ MatchIdle /\ LowerIdle /\ ReplIdle

Init ==
    /\ table = EmptyTable
    /\ last = NoCall
    /\ calls = 0
    /\ program = "none"
    /\ env = Environment(0, <<>>)
    /\ set = {}
    /\ stack = <<>>
    /\ pc = "idle"
    /\ returned = <<>>
    /\ SideIdle

NewWithVars ==
    /\ calls = 0
    /\ last = NoCall
    /\ table = EmptyTable
    /\ \E binders \in BinderChoices : table' = new_with_vars(binders)
    /\ UNCHANGED <<last, calls, elabVars>>
    /\ UNCHANGED sideVars

\* One call of InferenceTable::unify that returns.
UnifyCall(sort) ==
    /\ calls < MaxCalls
    /\ last = NoCall
    /\ \E a \in TermsOf(sort), b \in TermsOf(sort) :
          /\ Scoped(table, sort, a)
          /\ Scoped(table, sort, b)
          /\ \E e \in {Environment(MaxUniverse, <<>>)} :
                \E r \in {unify(table, e, sort, a, b)} :
                    /\ r.res # "panic"
                    /\ table' = r.table
                    /\ last' = [op |-> "unify", sort |-> sort, environment |-> e,
                                a |-> a, b |-> b, pre |-> table, zipped |-> r.zipped,
                                res |-> r.res, msg |-> r.msg, goals |-> r.goals,
                                constraints |-> r.constraints]
    /\ calls' = calls + 1
    /\ UNCHANGED elabVars
    /\ UNCHANGED sideVars

UnifyTy == UnifyCall("Ty")
UnifyLifetime == UnifyCall("Lifetime")
UnifyKrate == UnifyCall("Krate")

\* One call of InferenceTable::make_query that returns.
MakeQuery ==
    /\ last = NoCall
    /\ NumVars(table.ty) > 0
    /\ \E value \in QueryValues :
          /\ ScopedValue(table, value)
          /\ \E r \in {make_query(table, value)} :
                /\ r.res = "ok"
                /\ last' = [op |-> "make_query", value |-> value, query |-> r.query]
    /\ UNCHANGED <<table, calls, elabVars>>
    /\ UNCHANGED sideVars

\* The caller is done with the result of the last call; a call that
\* panicked does not return to its caller.
Return ==
    /\ last # NoCall
    /\ last.op = "unify" => last.res # "panic"
    /\ last' = NoCall
    /\ UNCHANGED <<table, calls, elabVars>>
    /\ UNCHANGED sideVars

Next ==
    \/ NewWithVars
    \/ UnifyTy
    \/ UnifyLifetime
    \/ UnifyKrate
    \/ MakeQuery
    \/ Return

Spec == Init /\ [][Next]_vars

(***************************************************************************)
(* ir/mod.rs: Environment::elaborated_clauses.  `set` and `stack` are the  *)
(* locals of the function, `pc` its position, `returned` what the iterator *)
(* it returns yields: each clause with the number of times it is yielded.  *)
(***************************************************************************)
Vec(x) == Apply(ItemId("Vec"), <<PTy(x)>>)

TraitDatum(binders, where_clauses) == [binders |-> binders, where_clauses |-> where_clauses]
AssociatedTyDatum(trait_id) == [trait_id |-> trait_id]

\* trait A where Self: B            trait B where Self: C, Self: A
\* trait C                          trait Iter { type Item; }
\* trait Conv<T> where T: A, Self: Iter<Item = T>
\* trait Grow where Vec<Self>: Grow
Program1 ==
    [trait_data |->
        [id \in {"A", "B", "C", "Iter", "Conv", "Grow"} |->
            CASE id = "A" -> TraitDatum(1, <<Implemented("B", <<PTy(TyVar(0))>>)>>)
              [] id = "B" -> TraitDatum(1, <<Implemented("C", <<PTy(TyVar(0))>>),
                                             Implemented("A", <<PTy(TyVar(0))>>)>>)
              [] id = "C" -> TraitDatum(1, <<>>)
              [] id = "Iter" -> TraitDatum(1, <<>>)
              [] id = "Conv" ->
                    TraitDatum(2, <<Implemented("A", <<PTy(TyVar(1))>>),
                                    Normalize(Projection("Item", <<PTy(TyVar(0))>>),
                                              TyVar(1))>>)
              [] id = "Grow" ->
                    TraitDatum(1, <<Implemented("Grow", <<PTy(Vec(TyVar(0)))>>)>>)],
     associated_ty_data |-> [id \in {"Item"} |-> AssociatedTyDatum("Iter")]]

\* trait A                          trait B where Self: A
\* trait C where Self: B            trait Iter where Self: C { type Item; }
\* trait Conv<T> where T: Conv<Self>
\* trait Grow
Program2 ==
    [trait_data |->
        [id \in {"A", "B", "C", "Iter", "Conv", "Grow"} |->
            CASE id = "A" -> TraitDatum(1, <<>>)
              [] id = "B" -> TraitDatum(1, <<Implemented("A", <<PTy(TyVar(0))>>)>>)
              [] id = "C" -> TraitDatum(1, <<Implemented("B", <<PTy(TyVar(0))>>)>>)
              [] id = "Iter" -> TraitDatum(1, <<Implemented("C", <<PTy(TyVar(0))>>)>>)
              [] id = "Conv" ->
                    TraitDatum(2, <<Implemented("Conv", <<PTy(TyVar(1)), PTy(TyVar(0))>>)>>)
              [] id = "Grow" -> TraitDatum(1, <<>>)],
     associated_ty_data |-> [id \in {"Item"} |-> AssociatedTyDatum("Iter")]]

Programs == {Program1, Program2}

\* The where-clauses environments are made of.  The projection with two
\* parameters has one parameter of its own before the parameter of its trait.
Clauses ==
    {Implemented("A", <<PTy(Bar)>>),
     Implemented("B", <<PTy(Skolem(1))>>),
     Implemented("Conv", <<PTy(Bar), PTy(Skolem(1))>>),
     Implemented("Grow", <<PTy(Bar)>>),
     Normalize(Projection("Item", <<PTy(Bar)>>), Skolem(1)),
     Normalize(Projection("Item", <<PLifetime(LifetimeForAll(1)), PTy(Foo(Bar))>>), Bar)}

ClauseLists == UNION {[1..n -> Clauses] : n \in 0..MaxClauses}

RECURSIVE TyDepth(_)
\* How deeply the type applications of a type nest.
TyDepth(ty) ==
    CASE ty.tag \in {"Apply", "Projection"} ->
            LET RECURSIVE deepest(_)
                deepest(i) ==
                    IF i > Len(ty.parameters) THEN 0
                    ELSE LET p == ty.parameters[i]
                             d == IF p.kind = "Ty" THEN TyDepth(p.v) ELSE 0
                             rest == deepest(i + 1)
                         IN  IF d > rest THEN d ELSE rest
            IN  1 + deepest(1)
      [] ty.tag = "ForAll" -> TyDepth(ty.ty)
      [] OTHER -> 0

ClauseDepth(wc) ==
    IF wc.tag = "Implemented"
    THEN TyDepth(Apply(ItemId(wc.trait_id), wc.parameters))
    ELSE TyDepth(Apply(ItemId("Normalize"), <<PTy(wc.projection), PTy(wc.ty)>>))

\* Program::split_projection
split_projection(prog, projection) ==
    LET associated_ty_data == prog.associated_ty_data[projection.associated_ty_id]
        trait_num_params == prog.trait_data[associated_ty_data.trait_id].binders
        parameters == projection.parameters
        split_point == Len(parameters) - trait_num_params
    IN  [associated_ty_data |-> associated_ty_data,
         trait_params |-> SubSeq(parameters, split_point + 1, Len(parameters)),
         other_params |-> SubSeq(parameters, 1, split_point)]

\* push_clause, without the push on the stack.
push_clause_no_stack(st, clause) ==
    IF clause \notin st.set
    THEN [set |-> st.set \cup {clause}, stack |-> st.stack]
    ELSE st

\* The closure push_clause of elaborated_clauses, on st = [set, stack].
push_clause(st, clause) ==
    IF clause \notin st.set
    THEN [set |-> st.set \cup {clause}, stack |-> Append(st.stack, clause)]
    ELSE st

RECURSIVE push_clauses(_, _, _)
push_clauses(st, clauses, i) ==
    IF i > Len(clauses) THEN st
    ELSE push_clauses(push_clause(st, clauses[i]), clauses, i + 1)

\* The where-clauses of the trait of trait_ref, with its parameters in them.
ImpliedByImplemented(prog, trait_ref) ==
    LET where_clauses == prog.trait_data[trait_ref.trait_id].where_clauses
    IN  [i \in 1..Len(where_clauses) |-> subst_clause(trait_ref.parameters, where_clauses[i])]

\* The trait reference of the projection of a Normalize.
ImpliedByNormalize(prog, clause) ==
    LET sp == split_projection(prog, clause.projection)
    IN  Implemented(sp.associated_ty_data.trait_id, sp.trait_params)

\* The sequences that hold each element of the set once.
Orders(S) == {order \in [1..Cardinality(S) -> S] : \A c \in S : \E i \in DOMAIN order : order[i] = c}

RECURSIVE elaborate(_, _)
\* The loop of elaborated_clauses run until the stack is empty.
elaborate(prog, st) ==
    IF st.stack = <<>> THEN st.set
    ELSE LET clause == st.stack[Len(st.stack)]
             popped == [set |-> st.set, stack |-> SubSeq(st.stack, 1, Len(st.stack) - 1)]
         IN  IF clause.tag = "Implemented"
             THEN elaborate(prog, push_clauses(popped, ImpliedByImplemented(prog, clause), 1))
             ELSE elaborate(prog, push_clause(popped, ImpliedByNormalize(prog, clause)))

\* Environment::elaborated_clauses as a function of the environment and the
\* program, for the calls that return.
elaborated_clauses(e, prog) ==
    LET clauses == {e.clauses[i] : i \in 1..Len(e.clauses)}
    IN  elaborate(prog, [set |-> clauses, stack |-> CHOOSE order \in Orders(clauses) : TRUE])

InitElab ==
    /\ table = EmptyTable
    /\ last = NoCall
    /\ calls = 0
    /\ program \in Programs
    /\ env \in {Environment(0, clauses) : clauses \in ClauseLists}
    /\ set = {}
    /\ stack = <<>>
    /\ pc = "idle"
    /\ returned = <<>>
    /\ SideIdle

\* The set and the stack before the loop; the stack is in the order the
\* HashSet iterates in.
ElabStart ==
    /\ pc = "idle"
    /\ set' = {env.clauses[i] : i \in 1..Len(env.clauses)}
    /\ stack' \in Orders(set')
    /\ pc' = "loop"
    /\ UNCHANGED <<tableVars, program, env, returned>>
    /\ UNCHANGED sideVars

\* One turn of the loop on a clause Implemented(trait_ref).  A turn that
\* would push a clause deeper than MaxDepth is not taken.
ElabImplemented ==
    /\ pc = "loop"
    /\ stack # <<>>
    /\ LET clause == stack[Len(stack)]
           popped == [set |-> set, stack |-> SubSeq(stack, 1, Len(stack) - 1)]
       IN  /\ clause.tag = "Implemented"
           /\ LET implied == ImpliedByImplemented(program, clause)
                  st == push_clauses(popped, implied, 1)
              IN  /\ \A i \in 1..Len(implied) : ClauseDepth(implied[i]) <= MaxDepth
                  /\ set' = st.set
                  /\ stack' = st.stack
    /\ UNCHANGED <<tableVars, program, env, pc, returned>>
    /\ UNCHANGED sideVars

\* The type two applications further in.
Inner2(ty) == ty.parameters[1].v.parameters[1].v

\* The set and the stack grow without bound once a turn pushes a clause
\* nested deeper than MaxDepth: every later clause of that chain is nested
\* one deeper than the one it comes from.  Such clauses are kept up to
\* MaxDepth + 2; a deeper one is kept as the clause two applications further
\* in, so that the chain goes on through two clauses in turn.
Kept(clause) ==
    IF ClauseDepth(clause) <= MaxDepth + 2 THEN clause
    ELSE Implemented(clause.trait_id, <<PTy(Inner2(clause.parameters[1].v))>>)

\* push_clause on a clause nested deeper than MaxDepth.  It is nested deeper
\* than every clause the set holds, so set.contains is false and the clause
\* is inserted and pushed.
push_deeper(st, clause) ==
    [set |-> st.set \cup {Kept(clause)}, stack |-> Append(st.stack, Kept(clause))]

RECURSIVE push_clauses_deeper(_, _, _)
push_clauses_deeper(st, clauses, i) ==
    IF i > Len(clauses) THEN st
    ELSE IF ClauseDepth(clauses[i]) <= MaxDepth
         THEN push_clauses_deeper(push_clause(st, clauses[i]), clauses, i + 1)
         ELSE push_clauses_deeper(push_deeper(st, clauses[i]), clauses, i + 1)

\* One turn of the loop on a clause Implemented(trait_ref) that pushes a
\* clause nested deeper than MaxDepth.
ElabDeeper ==
    /\ pc = "loop"
    /\ stack # <<>>
    /\ LET clause == stack[Len(stack)]
           popped == [set |-> set, stack |-> SubSeq(stack, 1, Len(stack) - 1)]
       IN  /\ clause.tag = "Implemented"
           /\ LET implied == ImpliedByImplemented(program, clause)
                  st == push_clauses_deeper(popped, implied, 1)
              IN  /\ \E i \in 1..Len(implied) : ClauseDepth(implied[i]) > MaxDepth
                  /\ set' = st.set
                  /\ stack' = st.stack
    /\ UNCHANGED <<tableVars, program, env, pc, returned>>
    /\ UNCHANGED sideVars

\* One turn of the loop on a clause Normalize(projection -> ty).
ElabNormalize ==
    /\ pc = "loop"
    /\ stack # <<>>
    /\ LET clause == stack[Len(stack)]
           popped == [set |-> set, stack |-> SubSeq(stack, 1, Len(stack) - 1)]
       IN  /\ clause.tag = "Normalize"
           /\ LET st == push_clause(popped, ImpliedByNormalize(program, clause))
              IN  /\ set' = st.set
                  /\ stack' = st.stack
    /\ UNCHANGED <<tableVars, program, env, pc, returned>>
    /\ UNCHANGED sideVars

\* The stack is empty: set.into_iter() is returned.
ElabReturn ==
    /\ pc = "loop"
    /\ stack = <<>>
    /\ pc' = "done"
    /\ returned' = [clause \in set |-> 1]
    /\ UNCHANGED <<tableVars, program, env, set, stack>>
    /\ UNCHANGED sideVars

NextElab ==
    \/ ElabStart
    \/ ElabImplemented
    \/ ElabDeeper
    \/ ElabNormalize
    \/ ElabReturn

SpecElab == InitElab /\ [][NextElab]_vars

\* elaborated_clauses is sequential code: a call that has a next step takes it.
SpecElabFair == SpecElab /\ WF_vars(NextElab)

(***************************************************************************)
(* Calls of unify on lifetimes, on tables of lifetime variables.           *)
(***************************************************************************)
MaxLifetimes == 2
MaxSkolemUniverse == 2

LifetimeUniverses == 0..MaxSkolemUniverse

\* The lifetimes unify is called on: the variables of the table and the
\* skolem lifetimes of the universes entered so far.
LifetimesOf ==
    {LifetimeVar(i) : i \in 0..(MaxLifetimes - 1)}
        \cup {LifetimeForAll(ui) : ui \in 1..MaxSkolemUniverse}

NewLifetimeVars ==
    /\ calls = 0
    /\ last = NoCall
    /\ table = EmptyTable
    /\ \E lifetimes \in [1..MaxLifetimes -> LifetimeUniverses] :
          table' = new_with_vars([tys |-> <<>>, lifetimes |-> lifetimes, krates |-> <<>>])
    /\ UNCHANGED <<last, calls, elabVars>>
    /\ UNCHANGED sideVars

\* One call of InferenceTable::unify on two lifetimes, however it ends.
UnifyLifetimes ==
    /\ calls < MaxCalls
    /\ last = NoCall
    /\ \E a \in LifetimesOf, b \in LifetimesOf :
          /\ Scoped(table, "Lifetime", a)
          /\ Scoped(table, "Lifetime", b)
          /\ \E e \in {Environment(ui, <<>>) : ui \in LifetimeUniverses} :
                \E r \in {unify(table, e, "Lifetime", a, b)} :
                    /\ table' = r.table
                    /\ last' = [op |-> "unify", sort |-> "Lifetime", environment |-> e,
                                a |-> a, b |-> b, pre |-> table, zipped |-> r.zipped,
                                res |-> r.res, msg |-> r.msg, goals |-> r.goals,
                                constraints |-> r.constraints]
    /\ calls' = calls + 1
    /\ UNCHANGED elabVars
    /\ UNCHANGED sideVars

NextLifetime ==
    \/ NewLifetimeVars
    \/ UnifyLifetimes
    \/ Return

SpecLifetime == Init /\ [][NextLifetime]_vars

(***************************************************************************)
(* Calls of unify on quantified types, in environments of several          *)
(* universes, with and without clauses.                                    *)
(***************************************************************************)
MaxBinders == 2

Ref2(l, m) == Apply(ItemId("Ref2"), <<PLifetime(l), PLifetime(m)>>)

\* for<'a> Ref<'a>, for<'a> Foo<?0>, for<'a, 'b> Ref2<'a, 'b>,
\* for<'a, 'b> Ref2<'b, 'a>, for<'a, 'b> Ref2<'a, '?0>
ForAllTys ==
    {ForAll(1, Ref(LifetimeVar(0))), ForAll(1, Foo(TyVar(1))),
     ForAll(MaxBinders, Ref2(LifetimeVar(0), LifetimeVar(1))),
     ForAll(MaxBinders, Ref2(LifetimeVar(1), LifetimeVar(0))),
     ForAll(MaxBinders, Ref2(LifetimeVar(0), LifetimeVar(MaxBinders)))}

ApplyTys ==
    {Bar, Foo(TyVar(0)), Ref(LifetimeVar(0)), Ref(LifetimeForAll(1)),
     Ref2(LifetimeVar(0), LifetimeForAll(1))}

ForAllEnvironments ==
    {Environment(ui, clauses) : ui \in 0..MaxUniverse,
                                clauses \in {<<>>, <<Implemented("A", <<PTy(Bar)>>)>>}}

NewForAllVars ==
    /\ calls = 0
    /\ last = NoCall
    /\ table = EmptyTable
    /\ \E tys \in [1..1 -> 0..MaxUniverse], lifetimes \in [1..1 -> 0..MaxUniverse] :
          table' = new_with_vars([tys |-> tys, lifetimes |-> lifetimes, krates |-> <<>>])
    /\ UNCHANGED <<last, calls, elabVars>>
    /\ UNCHANGED sideVars

\* One call of InferenceTable::unify on two types of which one is
\* quantified or a variable, however it ends.
UnifyForAll ==
    /\ calls < MaxCalls
    /\ last = NoCall
    /\ \E a \in ForAllTys \cup ApplyTys \cup {TyVar(0)},
          b \in ForAllTys \cup ApplyTys \cup {TyVar(0)} :
          /\ a \notin ApplyTys \/ b \notin ApplyTys
          /\ Scoped(table, "Ty", a)
          /\ Scoped(table, "Ty", b)
          /\ \E e \in ForAllEnvironments :
                \E r \in {unify(table, e, "Ty", a, b)} :
                    /\ table' = r.table
                    /\ last' = [op |-> "unify", sort |-> "Ty", environment |-> e,
                                a |-> a, b |-> b, pre |-> table, zipped |-> r.zipped,
                                res |-> r.res, msg |-> r.msg, goals |-> r.goals,
                                constraints |-> r.constraints]
    /\ calls' = calls + 1
    /\ UNCHANGED elabVars
    /\ UNCHANGED sideVars

NextForAll ==
    \/ NewForAllVars
    \/ UnifyForAll
    \/ Return

SpecForAll == Init /\ [][NextForAll]_vars

(***************************************************************************)
(* Calls of unify on projections.                                          *)
(***************************************************************************)
\* <?0 as _>::Item, <Bar as _>::Item, <Foo<?0> as _>::Item and
\* <!1 as _>::Item
ProjectionTys == {Item(TyVar(0)), Item(Bar), Item(Foo(TyVar(0))), Item(Skolem(1))}

\* One call of InferenceTable::unify on two types of which one is a
\* projection or a variable, however it ends.
UnifyProjection ==
    /\ calls < MaxCalls
    /\ last = NoCall
    /\ \E a \in ProjectionTys \cup ApplyTys \cup ForAllTys \cup {TyVar(0)},
          b \in ProjectionTys \cup ApplyTys \cup ForAllTys \cup {TyVar(0)} :
          /\ a \in ProjectionTys \cup {TyVar(0)} \/ b \in ProjectionTys \cup {TyVar(0)}
          /\ Scoped(table, "Ty", a)
          /\ Scoped(table, "Ty", b)
          /\ \E e \in ForAllEnvironments :
                \E r \in {unify(table, e, "Ty", a, b)} :
                    /\ table' = r.table
                    /\ last' = [op |-> "unify", sort |-> "Ty", environment |-> e,
                                a |-> a, b |-> b, pre |-> table, zipped |-> r.zipped,
                                res |-> r.res, msg |-> r.msg, goals |-> r.goals,
                                constraints |-> r.constraints]
    /\ calls' = calls + 1
    /\ UNCHANGED elabVars
    /\ UNCHANGED sideVars

NextProjection ==
    \/ NewForAllVars
    \/ UnifyProjection
    \/ Return

SpecProjection == Init /\ [][NextProjection]_vars

(***************************************************************************)
(* Calls of unify that bind a type variable, three in a row, on a table of *)
(* three type variables.                                                   *)
(***************************************************************************)
MaxOccursCalls == 3

\* Bar, !1, Foo<?1>, Foo<!1>, Pair<?1, !1>, forall<'a> Foo<?0>,
\* forall<'a> Foo<?1> and the variables.
OccursTys ==
    {Bar, Skolem(1), Foo(TyVar(1)), Foo(Skolem(1)), Pair(TyVar(1), Skolem(1)),
     ForAll(1, Foo(TyVar(1))), ForAll(1, Foo(TyVar(2)))}
        \cup {TyVar(i) : i \in 0..2}

NewOccursVars ==
    /\ calls = 0
    /\ last = NoCall
    /\ table = EmptyTable
    /\ \E tys \in [1..3 -> 0..MaxUniverse] :
          table' = new_with_vars([tys |-> tys, lifetimes |-> <<>>, krates |-> <<>>])
    /\ UNCHANGED <<last, calls, elabVars>>
    /\ UNCHANGED sideVars

\* One call of InferenceTable::unify on a type variable and a type, in
\* either order, however it ends.
UnifyOccurs ==
    /\ calls < MaxOccursCalls
    /\ last = NoCall
    /\ NumVars(table.ty) > 0
    /\ \E var \in 0..2, ty \in OccursTys, swap \in BOOLEAN :
          \E e \in {Environment(MaxUniverse, <<>>)} :
             \E r \in {IF swap THEN unify(table, e, "Ty", ty, TyVar(var))
                       ELSE unify(table, e, "Ty", TyVar(var), ty)} :
                /\ table' = r.table
                /\ last' = [op |-> "unify", sort |-> "Ty", environment |-> e,
                            a |-> IF swap THEN ty ELSE TyVar(var),
                            b |-> IF swap THEN TyVar(var) ELSE ty,
                            pre |-> table, zipped |-> r.zipped,
                            res |-> r.res, msg |-> r.msg, goals |-> r.goals,
                            constraints |-> r.constraints]
    /\ calls' = calls + 1
    /\ UNCHANGED elabVars
    /\ UNCHANGED sideVars

NextOccurs ==
    \/ NewOccursVars
    \/ UnifyOccurs
    \/ Return

SpecOccurs == Init /\ [][NextOccurs]_vars

(***************************************************************************)
(* InferenceTable::unify step by step: Unifier::new, zip_with, and commit  *)
(* or rollback, on a table whose user holds snapshots of its own.          *)
(***************************************************************************)
MaxOuterSnapshots == 1

\* The user of the table opens a snapshot between two calls.
OuterSnapshot ==
    /\ last = NoCall
    /\ NumVars(table.ty) > 0
    /\ Len(table.snapshots) < MaxOuterSnapshots
    /\ table' = snapshot(table)
    /\ UNCHANGED <<last, calls, elabVars>>
    /\ UNCHANGED sideVars

\* The user of the table closes its last snapshot between two calls.
OuterClose ==
    /\ last = NoCall
    /\ table.snapshots # <<>>
    /\ table' \in {commit(table), rollback_to(table)}
    /\ UNCHANGED <<last, calls, elabVars>>
    /\ UNCHANGED sideVars

\* The first statement of InferenceTable::unify: the unifier, with its
\* snapshot; `snapshot` is the position of that snapshot in the table.
UnifierNew ==
    /\ calls < MaxCalls
    /\ last = NoCall
    /\ NumVars(table.ty) > 0
    /\ \E var \in 0..2, ty \in OccursTys, swap \in BOOLEAN :
          \E u \in {Unifier_new(table)} :
             /\ table' = u.table
             /\ last' = [op |-> "Unifier_new", sort |-> "Ty",
                         environment |-> Environment(MaxUniverse, <<>>),
                         a |-> IF swap THEN ty ELSE TyVar(var),
                         b |-> IF swap THEN TyVar(var) ELSE ty,
                         pre |-> table, snapshot |-> Len(u.table.snapshots),
                         res |-> u.res, msg |-> u.msg, goals |-> u.goals,
                         constraints |-> u.constraints]
    /\ calls' = calls + 1
    /\ UNCHANGED elabVars
    /\ UNCHANGED sideVars

\* The unifier of the call under way.
Unifier ==
    [table |-> table, goals |-> last.goals, constraints |-> last.constraints,
     res |-> last.res, msg |-> last.msg]

\* Zip::zip_with(&mut unifier, a, b)
ZipWith ==
    /\ last.op = "Unifier_new"
    /\ \E zipped \in {zip_with(Unifier, last.environment, last.sort, last.a, last.b)} :
          /\ table' = zipped.table
          /\ last' = [last EXCEPT !.op = "zip_with", !.res = zipped.res,
                          !.msg = zipped.msg, !.goals = zipped.goals,
                          !.constraints = zipped.constraints]
    /\ UNCHANGED <<calls, elabVars>>
    /\ UNCHANGED sideVars

\* Ok(()) => unifier.commit()
UnifierCommit ==
    /\ last.op = "zip_with"
    /\ last.res = "ok"
    /\ table' = Unifier_commit(Unifier).table
    /\ last' = [last EXCEPT !.op = "unify"]
    /\ UNCHANGED <<calls, elabVars>>
    /\ UNCHANGED sideVars

\* Err(e) => { unifier.rollback(); Err(e) }
UnifierRollback ==
    /\ last.op = "zip_with"
    /\ last.res = "err"
    /\ table' = Unifier_rollback(Unifier).table
    /\ last' = [last EXCEPT !.op = "unify", !.goals = <<>>, !.constraints = <<>>]
    /\ UNCHANGED <<calls, elabVars>>
    /\ UNCHANGED sideVars

\* The caller is done with the result of the call that returned.
UnifyReturn ==
    /\ last.op = "unify"
    /\ Return

NextSnapshot ==
    \/ NewOccursVars
    \/ OuterSnapshot
    \/ OuterClose
    \/ UnifierNew
    \/ ZipWith
    \/ UnifierCommit
    \/ UnifierRollback
    \/ UnifyReturn

SpecSnapshot == Init /\ [][NextSnapshot]_vars

(***************************************************************************)
(* ir/tls.rs: the thread-local register of the current program.            *)
(***************************************************************************)
MaxNesting == 2
MaxObserved == 2

\* set_current_program(p, op) up to the start of op.  The call is made by
\* the thread itself or by the op of a call in progress.
SetCurrentProgram(p) ==
    /\ outcome # "panic"
    /\ Len(frames) < MaxNesting
    /\ PROGRAM' = Some(p)
    /\ frames' = Append(frames, p)
    /\ UNCHANGED <<notTls, observed, outcome>>

\* with_current_program(op): op is handed the content of the register.
\* `during` is the calls of set_current_program in progress.
WithCurrentProgram ==
    /\ outcome # "panic"
    /\ Len(observed) < MaxObserved
    /\ observed' = Append(observed, [during |-> frames, value |-> PROGRAM])
    /\ UNCHANGED <<notTls, PROGRAM, frames, outcome>>

\* The op of the innermost call returns r, a value Ok(..) or Err(..): the
\* register is set to None and r is returned.
OpReturn(r) ==
    /\ outcome # "panic"
    /\ frames # <<>>
    /\ PROGRAM' = None
    /\ frames' = SubSeq(frames, 1, Len(frames) - 1)
    /\ outcome' = r
    /\ UNCHANGED <<notTls, observed>>

\* The op of the innermost call panics: the stack unwinds through every
\* call in progress, and the assignment after `let r = op();` is not run.
OpPanic ==
    /\ outcome # "panic"
    /\ frames # <<>>
    /\ frames' = <<>>
    /\ outcome' = "panic"
    /\ UNCHANGED <<notTls, PROGRAM, observed>>

NextTls ==
    \/ \E p \in Programs : SetCurrentProgram(p)
    \/ WithCurrentProgram
    \/ \E r \in {"Ok", "Err"} : OpReturn(r)
    \/ OpPanic

SpecTls == Init /\ [][NextTls]_vars

(***************************************************************************)
(* ir/mod.rs: environments held through Arc.                               *)
(***************************************************************************)
MaxArcs == 3

\* Arc::new(value): the new Arc is the last one of the heap.
Arc_new(heap, value) == Append(heap, value)

\* add_clauses that extends the clauses of the receiver itself.
Environment_add_clauses_in_place(heap, self, clauses) ==
    Arc_new([heap EXCEPT ![self] = add_clauses(@, clauses)], add_clauses(heap[self], clauses))

\* Environment::add_clauses on the receiver arcs[self]: a clone of the
\* receiver is extended and put behind a new Arc.
Environment_add_clauses(heap, self, clauses) ==
    Arc_new(heap, add_clauses(heap[self], clauses))

\* Environment::new_universe on the receiver arcs[self].
Environment_new_universe(heap, self) ==
    Arc_new(heap, new_universe(heap[self]))

AddClauses ==
    /\ Len(arcs) < MaxArcs
    /\ \E self \in DOMAIN arcs : \E clauses \in ClauseLists :
          /\ arcs' = Environment_add_clauses(arcs, self, clauses)
          /\ envop' = [op |-> "add_clauses", self |-> self, clauses |-> clauses,
                       before |-> arcs]
    /\ UNCHANGED notEnv

NewUniverse ==
    /\ Len(arcs) < MaxArcs
    /\ \E self \in DOMAIN arcs :
          /\ arcs' = Environment_new_universe(arcs, self)
          /\ envop' = [op |-> "new_universe", self |-> self, before |-> arcs]
    /\ UNCHANGED notEnv

NextEnv ==
    \/ AddClauses
    \/ NewUniverse

SpecEnv == Init /\ [][NextEnv]_vars

(***************************************************************************)
(* Reading a table: the substitution it stands for.                        *)
(***************************************************************************)
Cyclic == [tag |-> "Cyclic"]

RECURSIVE ResolveTy(_, _, _, _), ResolveParameter(_, _, _, _)

\* A lifetime or krate under `binders` binders, replaced by its bound value
\* or by the representative of its class.
ResolveVar(uf, term, binders) ==
    IF term.tag = "Var" /\ term.depth >= binders /\ HasVar(uf, term.depth - binders)
    THEN LET val == probe_value(uf, term.depth - binders)
         IN  IF val.tag = "Bound" THEN val.val
             ELSE [term EXCEPT !.depth = find(uf, term.depth - binders) + binders]
    ELSE term

\* The type with every bound variable replaced by its value, all the way
\* down, and every unbound variable by the representative of its class;
\* Cyclic where that does not end.
ResolveTy(t, ty, binders, fuel) ==
    IF fuel = 0 THEN Cyclic
    ELSE CASE ty.tag = "Var" ->
                IF ty.depth >= binders /\ HasVar(t.ty, ty.depth - binders)
                THEN LET val == probe_value(t.ty, ty.depth - binders)
                     IN  IF val.tag = "Bound"
                         THEN LET r == ResolveTy(t, val.val, 0, fuel - 1)
                              IN  IF r = Cyclic THEN Cyclic
                                  ELSE up_shift_ty(r, binders, 0)
                         ELSE TyVar(find(t.ty, ty.depth - binders) + binders)
                ELSE ty
           [] ty.tag \in {"Apply", "Projection"} ->
                LET ps == [i \in 1..Len(ty.parameters) |->
                               ResolveParameter(t, ty.parameters[i], binders, fuel - 1)]
                IN  IF \E i \in 1..Len(ps) : ps[i] = Cyclic THEN Cyclic
                    ELSE [ty EXCEPT !.parameters = ps]
           [] ty.tag = "ForAll" ->
                LET r == ResolveTy(t, ty.ty, binders + ty.num_binders, fuel - 1)
                IN  IF r = Cyclic THEN Cyclic ELSE ForAll(ty.num_binders, r)
           [] ty.tag = "Cyclic" -> Cyclic

ResolveParameter(t, p, binders, fuel) ==
    CASE p.kind = "Ty" ->
            LET r == ResolveTy(t, p.v, binders, fuel)
            IN  IF r = Cyclic THEN Cyclic ELSE PTy(r)
      [] p.kind = "Lifetime" -> PLifetime(ResolveVar(t.lifetime, p.v, binders))
      [] p.kind = "Krate" -> PKrate(ResolveVar(t.krate, p.v, binders))

Resolve(t, sort, term) ==
    CASE sort = "Ty" -> ResolveTy(t, term, 0, Fuel)
      [] sort = "Lifetime" -> ResolveVar(t.lifetime, term, 0)
      [] sort = "Krate" -> ResolveVar(t.krate, term, 0)

RECURSIVE SkolemsOfTy(_), TyVarsOfTy(_, _)

\* The universes of the skolems (type names and lifetimes) in a type.
SkolemsOfParameter(p) ==
    CASE p.kind = "Ty" -> SkolemsOfTy(p.v)
      [] p.kind = "Lifetime" -> IF p.v.tag = "ForAll" THEN {p.v.ui} ELSE {}
      [] p.kind = "Krate" -> {}

SkolemsOfTy(ty) ==
    CASE ty.tag = "Apply" ->
            (IF ty.name.tag = "ForAll" THEN {ty.name.ui} ELSE {})
                \cup UNION {SkolemsOfParameter(ty.parameters[i]) :
                                i \in 1..Len(ty.parameters)}
      [] ty.tag = "Projection" ->
            UNION {SkolemsOfParameter(ty.parameters[i]) : i \in 1..Len(ty.parameters)}
      [] ty.tag = "ForAll" -> SkolemsOfTy(ty.ty)
      [] OTHER -> {}

\* The inference variables of sort type that occur in a type met under
\* `binders` binders.
TyVarsOfTy(ty, binders) ==
    CASE ty.tag = "Var" -> IF ty.depth >= binders THEN {ty.depth - binders} ELSE {}
      [] ty.tag \in {"Apply", "Projection"} ->
            UNION {IF ty.parameters[i].kind = "Ty"
                   THEN TyVarsOfTy(ty.parameters[i].v, binders) ELSE {} :
                       i \in 1..Len(ty.parameters)}
      [] ty.tag = "ForAll" -> TyVarsOfTy(ty.ty, binders + ty.num_binders)
      [] OTHER -> {}

TyVarIds(t) == 0..(NumVars(t.ty) - 1)

IsUnbound(uf, v) == probe_value(uf, v).tag = "Unbound"
IsBound(uf, v) == probe_value(uf, v).tag = "Bound"

UnifyReturned == last.op = "unify"
UnifyOk == last.op = "unify" /\ last.res = "ok"
UnifyErr == last.op = "unify" /\ last.res = "err"

(***************************************************************************)
(* solve/match_clause.rs: the attempts to match the goal of a query with   *)
(* a clause.  The solver is borrowed by one attempt at a time.             *)
(***************************************************************************)
MaxAttempts == 2

\* Fulfill::new
Fulfill_new(infer) == [infer |-> infer, obligations |-> <<>>, constraints |-> <<>>]

\* Fulfill::unify: unify on the table of the fulfillment context; the
\* sub-goals and constraints of a success become obligations.
Fulfill_unify(fulfill, e, a, b) ==
    With(unify(fulfill.infer, e, "WhereClause", a, b), LAMBDA r :
        [res |-> r.res, msg |-> r.msg,
         fulfill |-> [infer |-> r.table,
                      obligations |-> fulfill.obligations \o r.goals,
                      constraints |-> fulfill.constraints \o r.constraints]])

\* A where-clause with the bindings of the table applied.
ResolveWhereClause(t, wc) ==
    IF wc.tag = "Implemented"
    THEN Implemented(wc.trait_id,
                     [i \in 1..Len(wc.parameters) |->
                         ResolveParameter(t, wc.parameters[i], 0, Fuel)])
    ELSE Normalize(Projection(wc.projection.associated_ty_id,
                              [i \in 1..Len(wc.projection.parameters) |->
                                  ResolveParameter(t, wc.projection.parameters[i], 0, Fuel)]),
                   ResolveTy(t, wc.ty, 0, Fuel))

\* Fulfill::refine_goal
refine_goal(fulfill, goal) ==
    InEnvironment(goal.environment, ResolveWhereClause(fulfill.infer, goal.goal))

\* What Fulfill::solve_all may return.
SolveAllResults ==
    {[res |-> "ok", successful |-> "Yes", msg |-> ""],
     [res |-> "ok", successful |-> "Maybe", msg |-> ""],
     [res |-> "err", successful |-> "", msg |-> "no solution"]}

\* MatchClause::new
MatchClause_new(q, clause) ==
    [fulfill |-> Fulfill_new(new_with_vars(q.binders)),
     environment |-> q.value.environment,
     goal |-> q.value.goal,
     clause |-> clause]

\* solve without the `?` on the result of unify.
MatchClause_solve_unchecked(self, solve_all) ==
    With(Fulfill_unify(self.fulfill, self.environment, self.goal, self.clause),
         LAMBDA unified :
            IF solve_all.res = "err"
            THEN [res |-> "err", msg |-> solve_all.msg, solution |-> None,
                  solved_all |-> TRUE, fulfill |-> unified.fulfill]
            ELSE [res |-> "ok", msg |-> "",
                  solution |-> Some([successful |-> solve_all.successful,
                                     refined_goal |->
                                        refine_goal(unified.fulfill,
                                                    InEnvironment(self.environment, self.goal))]),
                  solved_all |-> TRUE, fulfill |-> unified.fulfill])

\* MatchClause::solve, with what solve_all returns when it is called.
\* solved_all tells whether it was called.
MatchClause_solve(self, solve_all) ==
    With(Fulfill_unify(self.fulfill, self.environment, self.goal, self.clause),
         LAMBDA unified :
            IF unified.res # "ok"
            THEN [res |-> unified.res, msg |-> unified.msg, solution |-> None,
                  solved_all |-> FALSE, fulfill |-> unified.fulfill]
            ELSE IF solve_all.res = "err"
            THEN [res |-> "err", msg |-> solve_all.msg, solution |-> None,
                  solved_all |-> TRUE, fulfill |-> unified.fulfill]
            ELSE [res |-> "ok", msg |-> "",
                  solution |-> Some([successful |-> solve_all.successful,
                                     refined_goal |->
                                        refine_goal(unified.fulfill,
                                                    InEnvironment(self.environment, self.goal))]),
                  solved_all |-> TRUE, fulfill |-> unified.fulfill])

\* The queries of the model: a goal in an environment of universe 1, and
\* the universes of its variables.
Queries ==
    {[value |-> InEnvironment(Environment(1, <<>>), Implemented("A", <<PTy(TyVar(0))>>)),
      binders |-> [tys |-> <<0>>, lifetimes |-> <<>>, krates |-> <<>>]],
     [value |-> InEnvironment(Environment(1, <<>>),
                              Implemented("Conv", <<PTy(TyVar(0)), PTy(TyVar(1))>>)),
      binders |-> [tys |-> <<0, 1>>, lifetimes |-> <<>>, krates |-> <<>>]],
     [value |-> InEnvironment(Environment(1, <<>>),
                              Normalize(Projection("Item", <<PTy(TyVar(0))>>), TyVar(1))),
      binders |-> [tys |-> <<1, 0>>, lifetimes |-> <<>>, krates |-> <<>>]]}

\* The clauses the goal is matched with.
MatchClauses ==
    Clauses \cup {Implemented("A", <<PTy(Skolem(1))>>),
                  Implemented("A", <<PTy(TyVar(0))>>),
                  Implemented("Conv", <<PTy(Foo(TyVar(1))), PTy(TyVar(0))>>)}

InitMatch ==
    /\ table = EmptyTable
    /\ last = NoCall
    /\ calls = 0
    /\ program = "none"
    /\ env = Environment(0, <<>>)
    /\ set = {}
    /\ stack = <<>>
    /\ pc = "idle"
    /\ returned = <<>>
    /\ TlsIdle
    /\ EnvIdle
    /\ query \in Queries
    /\ attempts = <<>>
    /\ LowerIdle
    /\ ReplIdle

\* MatchClause::new(solver, &query, clause), once the attempts before it
\* have returned.
MatchClauseNew ==
    /\ Len(attempts) < MaxAttempts
    /\ \A i \in DOMAIN attempts : attempts[i].pc = "returned"
    /\ \E clause \in MatchClauses :
          attempts' = Append(attempts, [self |-> MatchClause_new(query, clause),
                                        pc |-> "new", out |-> None])
    /\ UNCHANGED <<notMatch, query>>

\* MatchClause::solve of the attempt in progress, when it returns.
MatchClauseSolve ==
    /\ \E i \in DOMAIN attempts :
          /\ attempts[i].pc = "new"
          /\ \E solve_all \in SolveAllResults :
                \E r \in {MatchClause_solve(attempts[i].self, solve_all)} :
                    /\ r.res # "panic"
                    /\ attempts' = [attempts EXCEPT ![i].pc = "returned", ![i].out = Some(r)]
    /\ UNCHANGED <<notMatch, query>>

NextMatch ==
    \/ MatchClauseNew
    \/ MatchClauseSolve

SpecMatch == InitMatch /\ [][NextMatch]_vars

(***************************************************************************)
(* lower/test.rs: the programs of the tests on overlapping impls, and what *)
(* the test expects of lowering.  The overlap check works on the trait     *)
(* references an impl applies to, among the types made of the structs of   *)
(* the program and of one type the program does not name.                  *)
(***************************************************************************)
Struct(name, arity) == [name |-> name, arity |-> arity]

\* impl<binders> trait_id<parameters[2..]> for parameters[1] where
\* where_clauses { type Item = item; }, or impl !trait_id when not positive.
Impl(trait_id, positive, binders, parameters, where_clauses, item) ==
    [trait_id |-> trait_id, positive |-> positive, binders |-> binders,
     parameters |-> parameters, where_clauses |-> where_clauses, item |-> item]

Named(name) == PTy(Apply(ItemId(name), <<>>))
Generic(name, p) == PTy(Apply(ItemId(name), <<p>>))
ItemOf(p) == PTy(Projection("Item", <<p>>))

\* lowering_success! and lowering_error! with "overlapping impls of trait"
LoweringSuccess == [error |-> FALSE, trait_id |-> ""]
OverlappingImpls(trait_id) == [error |-> TRUE, trait_id |-> trait_id]

LowerTest(name, structs, impls, expected) ==
    [name |-> name, structs |-> structs, impls |-> impls, expected |-> expected]

LowerTests ==
    {LowerTest("two_impls_for_same_type", {Struct("Bar", 0)},
        <<Impl("Foo", TRUE, 0, <<Named("Bar")>>, <<>>, None),
          Impl("Foo", TRUE, 0, <<Named("Bar")>>, <<>>, None)>>,
        OverlappingImpls("Foo")),
     LowerTest("generic_vec_and_specific_vec", {Struct("Vec", 1), Struct("Bar", 0)},
        <<Impl("Foo", TRUE, 0, <<Generic("Vec", Named("Bar"))>>, <<>>, None),
          Impl("Foo", TRUE, 1, <<Generic("Vec", PTy(TyVar(0)))>>, <<>>, None)>>,
        LoweringSuccess),
     LowerTest("concrete_impl_and_blanket_impl", {Struct("Bar", 0)},
        <<Impl("Foo", TRUE, 0, <<Named("Bar")>>, <<>>, None),
          Impl("Foo", TRUE, 1, <<PTy(TyVar(0))>>, <<>>, None)>>,
        LoweringSuccess),
     LowerTest("two_blanket_impls", {Struct("Quux", 0)},
        <<Impl("Foo", TRUE, 1, <<PTy(TyVar(0))>>, <<Implemented("Bar", <<PTy(TyVar(0))>>)>>, None),
          Impl("Foo", TRUE, 1, <<PTy(TyVar(0))>>, <<Implemented("Baz", <<PTy(TyVar(0))>>)>>, None),
          Impl("Bar", TRUE, 0, <<Named("Quux")>>, <<>>, None),
          Impl("Baz", TRUE, 0, <<Named("Quux")>>, <<>>, None)>>,
        OverlappingImpls("Foo")),
     LowerTest("two_blanket_impls_open_ended", {},
        <<Impl("Foo", TRUE, 1, <<PTy(TyVar(0))>>, <<Implemented("Bar", <<PTy(TyVar(0))>>)>>, None),
          Impl("Foo", TRUE, 1, <<PTy(TyVar(0))>>, <<Implemented("Baz", <<PTy(TyVar(0))>>)>>, None)>>,
        LoweringSuccess),
     LowerTest("multiple_nonoverlapping_impls", {Struct("Bar", 0), Struct("Baz", 1)},
        <<Impl("Foo", TRUE, 0, <<Named("Bar")>>, <<>>, None),
          Impl("Foo", TRUE, 1, <<Generic("Baz", PTy(TyVar(0)))>>, <<>>, None)>>,
        LoweringSuccess),
     LowerTest("local_negative_reasoning_in_coherence", {Struct("Baz", 0)},
        <<Impl("Foo", TRUE, 1, <<PTy(TyVar(0))>>, <<Implemented("Bar", <<PTy(TyVar(0))>>)>>, None),
          Impl("Foo", TRUE, 0, <<Named("Baz")>>, <<>>, None)>>,
        LoweringSuccess),
     LowerTest("multiple_parameters", {Struct("Baz", 0)},
        <<Impl("Foo", TRUE, 1, <<PTy(TyVar(0)), Named("Baz")>>, <<>>, None),
          Impl("Foo", TRUE, 1, <<Named("Baz"), PTy(TyVar(0))>>, <<>>, None)>>,
        OverlappingImpls("Foo")),
     LowerTest("nonoverlapping_assoc_types", {Struct("Bar", 0), Struct("Baz", 1)},
        <<Impl("Iterator", TRUE, 0, <<Named("Bar")>>, <<>>, Some(Named("Bar"))),
          Impl("Iterator", TRUE, 1, <<Generic("Baz", PTy(TyVar(0)))>>, <<>>,
               Some(Generic("Baz", PTy(TyVar(0))))),
          Impl("Foo", TRUE, 0, <<ItemOf(Named("Bar"))>>, <<>>, None),
          Impl("Foo", TRUE, 1, <<ItemOf(Generic("Baz", PTy(TyVar(0))))>>, <<>>, None)>>,
        LoweringSuccess),
     LowerTest("overlapping_assoc_types", {Struct("Vec", 1)},
        <<Impl("Iterator", TRUE, 1, <<Generic("Vec", PTy(TyVar(0)))>>, <<>>,
               Some(PTy(TyVar(0)))),
          Impl("Foo", TRUE, 1, <<PTy(TyVar(0)), ItemOf(PTy(TyVar(0)))>>,
               <<Implemented("Iterator", <<PTy(TyVar(0))>>)>>, None),
          Impl("Foo", TRUE, 2, <<PTy(TyVar(1)), PTy(TyVar(0))>>, <<>>, None)>>,
        OverlappingImpls("Foo")),
     LowerTest("overlapping_negative_positive_impls", {Struct("i32", 0)},
        <<Impl("Send", TRUE, 0, <<Named("i32")>>, <<>>, None),
          Impl("Send", FALSE, 0, <<Named("i32")>>, <<>>, None)>>,
        OverlappingImpls("Send")),
     LowerTest("overlapping_negative_impls", {Struct("Vec", 1), Struct("i32", 0)},
        <<Impl("Foo", TRUE, 0, <<Named("i32")>>, <<>>, None),
          Impl("Bar", TRUE, 0, <<Named("i32")>>, <<>>, None),
          Impl("Send", FALSE, 1, <<Generic("Vec", PTy(TyVar(0)))>>,
               <<Implemented("Foo", <<PTy(TyVar(0))>>)>>, None),
          Impl("Send", FALSE, 1, <<Generic("Vec", PTy(TyVar(0)))>>,
               <<Implemented("Bar", <<PTy(TyVar(0))>>)>>, None)>>,
        LoweringSuccess)}

\* How deep the overlap check follows where-clauses into impls.
MaxImplDepth == 3

\* The types impls are instantiated with: the structs without parameters
\* and one type the program does not name, and the structs of one parameter
\* applied to them.
Ground0(prog) ==
    {Named(st.name) : st \in {st \in prog.structs : st.arity = 0}} \cup {PTy(Skolem(1))}
Ground(prog) ==
    Ground0(prog)
        \cup {Generic(st.name, g) : st \in {st \in prog.structs : st.arity = 1},
                                    g \in Ground0(prog)}

RECURSIVE applies(_, _, _)

\* The where-clause holds of ground types: a positive impl of the trait
\* applies to it.
holds(prog, clause, fuel) ==
    /\ fuel > 0
    /\ \E i \in DOMAIN prog.impls :
          /\ prog.impls[i].positive
          /\ prog.impls[i].trait_id = clause.trait_id
          /\ clause \in applies(prog, prog.impls[i], fuel - 1)

\* What a ground parameter normalizes to: itself, or for a projection
\* <T as Trait>::Item the Item of the impls that apply to T.
normal_forms(prog, p, fuel) ==
    IF p.v.tag # "Projection" THEN {p}
    ELSE IF fuel = 0 THEN {}
    ELSE UNION {{subst_parameter(sigma, prog.impls[i].item.v, 0) :
                    sigma \in {sigma \in [1..prog.impls[i].binders -> Ground(prog)] :
                                  subst_parameter(sigma, prog.impls[i].parameters[1], 0)
                                      = p.v.parameters[1]}} :
                i \in {i \in DOMAIN prog.impls :
                          prog.impls[i].positive /\ prog.impls[i].item # None}}

\* The ground trait references the impl applies to.
applies(prog, impl, fuel) ==
    UNION {LET parameters == [k \in DOMAIN impl.parameters |->
                                  normal_forms(prog,
                                               subst_parameter(sigma, impl.parameters[k], 0),
                                               fuel)]
           IN  IF /\ \A w \in DOMAIN impl.where_clauses :
                        holds(prog, subst_clause(sigma, impl.where_clauses[w]), fuel)
                  /\ \A k \in DOMAIN parameters : parameters[k] # {}
               THEN {Implemented(impl.trait_id,
                                 [k \in DOMAIN parameters |->
                                     CHOOSE x \in parameters[k] : TRUE])}
               ELSE {} :
           sigma \in [1..impl.binders -> Ground(prog)]}

\* The impl applies to some of the trait references the other applies to,
\* and not to all of them.
strictly_more_specific(prog, a, b) ==
    /\ applies(prog, a, MaxImplDepth) \subseteq applies(prog, b, MaxImplDepth)
    /\ applies(prog, a, MaxImplDepth) # applies(prog, b, MaxImplDepth)

has_projection(impl) == \E k \in DOMAIN impl.parameters : impl.parameters[k].v.tag = "Projection"

\* No impl is taken to specialize another.
never_specializes(prog, a, b) == FALSE

\* The impl is taken to specialize the other: it is strictly more specific
\* and its header holds no projection.
specializes(prog, a, b) ==
    /\ ~has_projection(a)
    /\ strictly_more_specific(prog, a, b)

\* The overlap check on two impls: they are impls of one trait, not both
\* negative, they apply to a common trait reference and neither specializes
\* the other.
overlap(prog, a, b) ==
    /\ a.trait_id = b.trait_id
    /\ a.positive \/ b.positive
    /\ applies(prog, a, MaxImplDepth) \cap applies(prog, b, MaxImplDepth) # {}
    /\ ~specializes(prog, a, b)
    /\ ~specializes(prog, b, a)

ImplPairs(prog) ==
    {pair \in (DOMAIN prog.impls) \X (DOMAIN prog.impls) : pair[1] < pair[2]}

InitLower ==
    /\ table = EmptyTable
    /\ last = NoCall
    /\ calls = 0
    /\ program = "none"
    /\ env = Environment(0, <<>>)
    /\ set = {}
    /\ stack = <<>>
    /\ pc = "idle"
    /\ returned = <<>>
    /\ TlsIdle
    /\ EnvIdle
    /\ MatchIdle
    /\ ReplIdle
    /\ \E test \in LowerTests :
          lowering = [pc |-> "impls", test |-> test, checked |-> {}, result |-> None]

\* The check of one more pair of impls, in the order the impls come out of
\* the map of the program; lowering returns the error of the first pair
\* that overlaps.
CheckImpls ==
    /\ lowering.pc = "impls"
    /\ \E pair \in ImplPairs(lowering.test) \ lowering.checked :
          LET a == lowering.test.impls[pair[1]]
              b == lowering.test.impls[pair[2]]
          IN  IF overlap(lowering.test, a, b)
              THEN lowering' = [lowering EXCEPT !.pc = "done",
                                    !.result = Some(OverlappingImpls(a.trait_id))]
              ELSE lowering' = [lowering EXCEPT !.checked = @ \cup {pair}]
    /\ UNCHANGED notLower

\* Every pair is checked: lowering returns the program.
LowerReturn ==
    /\ lowering.pc = "impls"
    /\ lowering.checked = ImplPairs(lowering.test)
    /\ lowering' = [lowering EXCEPT !.pc = "done", !.result = Some(LoweringSuccess)]
    /\ UNCHANGED notLower

NextLower ==
    \/ CheckImpls
    \/ LowerReturn

SpecLower == InitLower /\ [][NextLower]_vars

(***************************************************************************)
(* bin/chalki.rs: the commands of the REPL.  A command is the line read,   *)
(* character by character; a program text stands for what the parser and  *)
(* lowering make of it.                                                    *)
(***************************************************************************)
MaxCommands == 3

starts_with(s, prefix) == Len(s) >= Len(prefix) /\ SubSeq(s, 1, Len(prefix)) = prefix

HelpCommand == <<"h", "e", "l", "p">>
ProgramCommand == <<"p", "r", "o", "g", "r", "a", "m">>
LoadPrefix == <<"l", "o", "a", "d", " ">>
PrintCommand == <<"p", "r", "i", "n", "t">>
LoweredCommand == <<"l", "o", "w", "e", "r", "e", "d">>

\* help, program, load a, load b, load c, load with an empty name, load
\* without a name, print, lowered, a goal, a line that is no goal, and help
\* after a blank.
Commands ==
    {HelpCommand, ProgramCommand, LoadPrefix \o <<"a">>, LoadPrefix \o <<"b">>,
     LoadPrefix \o <<"c">>, LoadPrefix, <<"l", "o", "a", "d">>, PrintCommand,
     LoweredCommand, <<"F", "o", "o", ":", "B", "a", "r">>, <<"?">>,
     <<" ">> \o HelpCommand}

\* The texts of programs: two that lower, one that does not parse and one
\* with overlapping impls.
Texts == {"struct Foo { }", "trait Bar { }", "struct {", "impl Bar for Foo { } impl Bar for Foo { }"}

ROk(v) == [ok |-> TRUE, v |-> v]
RErr(msg) == [ok |-> FALSE, msg |-> msg]

\* The files there are: a and b; b does not parse.
File_open(filename) ==
    CASE filename = <<"a">> -> ROk("trait Bar { }")
      [] filename = <<"b">> -> ROk("struct {")
      [] OTHER -> RErr("No such file or directory")

\* parse_program(&text)?.lower()?
Program_new(text) ==
    CASE text = "struct {" -> RErr("parse error")
      [] text = "impl Bar for Foo { } impl Bar for Foo { }" ->
            RErr("overlapping impls of trait")
      [] OTHER -> ROk([text |-> text])

\* What read_program returns: the lines typed up to Ctrl-D, or the error of
\* readline.
ReadProgramResults == {ROk(text) : text \in Texts} \cup {RErr("readline")}

\* goal: parse_goal(text)?.lower(..)?, then the solver; whatever the solver
\* answers is printed and the command returns Ok.
goal(text) ==
    IF text = <<"F", "o", "o", ":", "B", "a", "r">>
    THEN [res |-> "ok", msg |-> "", solver |-> TRUE]
    ELSE [res |-> "err", msg |-> "parse error", solver |-> FALSE]

\* `*prog = Some(Program::new(text?)?)`, with the program dropped when the
\* right-hand side fails.
assign_program_or_none(p, text) ==
    IF ~text.ok THEN [prog |-> None, res |-> "err", msg |-> text.msg, solver |-> FALSE]
    ELSE IF ~Program_new(text.v).ok
    THEN [prog |-> None, res |-> "err", msg |-> Program_new(text.v).msg, solver |-> FALSE]
    ELSE [prog |-> Some(Program_new(text.v).v), res |-> "ok", msg |-> "", solver |-> FALSE]

\* `*prog = Some(Program::new(text?)?)`: each ? returns before the
\* assignment.
assign_program(p, text) ==
    IF ~text.ok THEN [prog |-> p, res |-> "err", msg |-> text.msg, solver |-> FALSE]
    ELSE IF ~Program_new(text.v).ok
    THEN [prog |-> p, res |-> "err", msg |-> Program_new(text.v).msg, solver |-> FALSE]
    ELSE [prog |-> Some(Program_new(text.v).v), res |-> "ok", msg |-> "", solver |-> FALSE]

\* process.  `typed` is what read_program returns should the command call
\* it.  set_current_program holds the program for the time of the closure.
process(command, p, typed) ==
    IF command = HelpCommand
    THEN [prog |-> p, res |-> "ok", msg |-> "", solver |-> FALSE]
    ELSE IF command = ProgramCommand THEN assign_program(p, typed)
    ELSE IF starts_with(command, LoadPrefix)
    THEN assign_program(p, File_open(SubSeq(command, Len(LoadPrefix) + 1, Len(command))))
    ELSE IF ~p.some
    THEN [prog |-> p, res |-> "err", msg |-> "no program currently loaded",
          solver |-> FALSE]
    ELSE IF command \in {PrintCommand, LoweredCommand}
    THEN [prog |-> p, res |-> "ok", msg |-> "", solver |-> FALSE]
    ELSE [prog |-> p] @@ goal(command)

\* One turn of readline_loop in run: the line is added to the history and
\* processed; an error is printed and the loop goes on.
Process ==
    /\ shell.history < MaxCommands
    /\ \E command \in Commands, typed \in ReadProgramResults :
          \E r \in {process(command, loaded, typed)} :
             /\ loaded' = r.prog
             /\ shell' = [history |-> shell.history + 1, command |-> command,
                          pre |-> loaded, res |-> r.res, msg |-> r.msg,
                          solver |-> r.solver]
    /\ UNCHANGED notRepl

NextRepl == Process

SpecRepl == Init /\ [][NextRepl]_vars

(***************************************************************************)
(* Statements about unify.                                                 *)
(***************************************************************************)

\* C1: when a call of unify returns an error, the table observed after it
\* (each variable's value or universe, and the classes) is the table observed
\* before it, whatever the call had bound or promoted before it failed.
C1_ErrorRestoresTable ==
    UnifyErr => ObservableTable(table) = ObservableTable(last.pre)

\* A failed call that had changed the table before it failed.
C1_Witness ==
    /\ UnifyErr
    /\ ObservableTable(last.zipped) # ObservableTable(last.pre)

\* C2: every skolem in the fully resolved value of a bound variable is of a
\* universe the variable could see when it was bound.
C2_OccursUniverse ==
    /\ \A v \in TyVarIds(table) :
          LET val == probe_value(table.ty, v)
          IN  val.tag = "Bound" =>
                \A u \in SkolemsOfTy(ResolveTy(table, val.val, 0, Fuel)) : u <= val.ui
    /\ \A v \in 0..(NumVars(table.lifetime) - 1) :
          LET val == probe_value(table.lifetime, v)
          IN  val.tag = "Bound" => val.val.ui <= val.ui

\* A variable of universe 0 is bound by a call that met a skolem of a higher
\* universe.
C2_Witness ==
    /\ UnifyOk
    /\ \E v \in TyVarIds(last.pre) :
          /\ probe_value(last.pre.ty, v) = Unbound(0)
          /\ IsBound(table.ty, v)
          /\ \E u \in SkolemsOfTy(probe_value(table.ty, v).val) : u > 0

\* The variables of the class of v occur in the resolved value of v, or the
\* resolution of v does not end.
OccursInOwnValue(t, v) ==
    LET val == probe_value(t.ty, v)
        r == ResolveTy(t, val.val, 0, Fuel)
    IN  /\ val.tag = "Bound"
        /\ \/ r = Cyclic
           \/ \E w \in TyVarsOfTy(r, 0) : HasVar(t.ty, w) /\ unioned(t.ty, w, v)

\* C3: no bound type variable occurs in its own resolved value, and neither
\* does a variable of its class.
C3_OccursCheck == \A v \in TyVarIds(table) : ~OccursInOwnValue(table, v)

\* The occurs check has refused a binding.
C3_Witness == UnifyErr /\ last.msg = "cycle during unification"

\* The last call was unify(?v, ty) or unify(ty, ?v) on an unbound ?v and an
\* Apply or ForAll type: the call that binds ?v to ty.
BindsVarTo(v, ty) ==
    /\ UnifyReturned
    /\ last.sort = "Ty"
    /\ \/ last.a = TyVar(v) /\ last.b = ty
       \/ last.b = TyVar(v) /\ last.a = ty
    /\ IsUnbound(last.pre.ty, v)
    /\ ty.tag \in {"Apply", "ForAll"}

\* C4: a call that binds ?v of universe ui to ty fails only on a cycle or on a
\* skolem of a higher universe, and when it succeeds every unbound type
\* variable occurring in ty has a universe <= ui.
C4_Promotion ==
    \A v \in TyVarIds(table), ty \in Tys :
        BindsVarTo(v, ty) =>
            LET ui == probe_value(last.pre.ty, v).ui
            IN  /\ last.res = "err" =>
                     last.msg \in {"cycle during unification", "incompatible universes"}
                /\ last.res = "ok" =>
                     \A w \in TyVarsOfTy(ty, 0) :
                        IsUnbound(table.ty, w) => probe_value(table.ty, w).ui <= ui

\* ?0 = Foo<?1> with ?0 in universe 0 and ?1 in universe 1 has succeeded and
\* ?1 is now in universe 0.
C4_Witness ==
    /\ BindsVarTo(0, Foo(TyVar(1)))
    /\ probe_value(last.pre.ty, 0) = Unbound(0)
    /\ probe_value(last.pre.ty, 1) = Unbound(1)
    /\ last.res = "ok"
    /\ probe_value(table.ty, 1) = Unbound(0)

ForAllRef == ForAll(1, Ref(LifetimeVar(0)))

\* C5 as stated: ?A of universe 0 unified with forall<'a> Ref<'a> fails and
\* ?A is still unbound.
C5_Original ==
    \A v \in TyVarIds(table) :
        (BindsVarTo(v, ForAllRef) /\ probe_value(last.pre.ty, v) = Unbound(0))
            => (last.res = "err" /\ IsUnbound(table.ty, v))

\* C5, amended: ?A of universe 0 unified with forall<'a> Ref<'a> succeeds
\* with no sub-goal and no constraint and binds ?A to that type; unified with
\* a skolem type of a universe above 0 it fails on the universes and ?A is
\* still unbound.
C5_Amended ==
    \A v \in TyVarIds(table) :
        /\ (BindsVarTo(v, ForAllRef) /\ probe_value(last.pre.ty, v) = Unbound(0))
              => /\ last.res = "ok"
                 /\ last.goals = <<>> /\ last.constraints = <<>>
                 /\ IsBound(table.ty, v)
                 /\ probe_value(table.ty, v).val = ForAllRef
        /\ \A u \in 1..MaxUniverse :
              (BindsVarTo(v, Skolem(u)) /\ probe_value(last.pre.ty, v) = Unbound(0))
                  => /\ last.res = "err"
                     /\ last.msg = "incompatible universes"
                     /\ IsUnbound(table.ty, v)

C5_Witness ==
    \E v \in TyVarIds(table) :
        /\ BindsVarTo(v, ForAllRef)
        /\ probe_value(last.pre.ty, v) = Unbound(0)
        /\ last.res = "ok"

\* C6: when unify commits with no sub-goal and no constraint, the two terms
\* resolve through the table, fully, to the same term.
C6_Soundness ==
    (UnifyOk /\ last.goals = <<>> /\ last.constraints = <<>>) =>
        LET ra == Resolve(table, last.sort, last.a)
            rb == Resolve(table, last.sort, last.b)
        IN  ra # Cyclic /\ rb # Cyclic /\ ra = rb

\* A call that bound a variable has committed with nothing left to prove.
C6_Witness ==
    /\ UnifyOk /\ last.goals = <<>> /\ last.constraints = <<>>
    /\ last.sort = "Ty"
    /\ ObservableTable(table) # ObservableTable(last.pre)
    /\ Resolve(table, "Ty", last.a) = Resolve(table, "Ty", last.b)
    /\ Resolve(table, "Ty", last.a) # Cyclic

(***************************************************************************)
(* Statements about make_query.                                            *)
(***************************************************************************)
RECURSIVE FreeVarsOfTy(_, _, _), Dedupe(_)

\* "Any" stands for the variables of every sort.
OfSort(sort, kind) == sort = kind \/ sort = "Any"

\* The free variables of a sort in a type, in the order a left-to-right walk
\* meets them, each as often as it occurs.
FreeVarsOfParameters(parameters, binders, sort) ==
    LET RECURSIVE from(_)
        from(i) ==
            IF i > Len(parameters) THEN <<>>
            ELSE LET p == parameters[i]
                     here == IF p.kind = "Ty" THEN FreeVarsOfTy(p.v, binders, sort)
                             ELSE IF OfSort(sort, p.kind) /\ p.v.tag = "Var"
                                     /\ p.v.depth >= binders
                             THEN <<p.v.depth - binders>>
                             ELSE <<>>
                 IN  here \o from(i + 1)
    IN  from(1)

FreeVarsOfTy(ty, binders, sort) ==
    CASE ty.tag = "Var" ->
            IF OfSort(sort, "Ty") /\ ty.depth >= binders
            THEN <<ty.depth - binders>> ELSE <<>>
      [] ty.tag \in {"Apply", "Projection"} ->
            FreeVarsOfParameters(ty.parameters, binders, sort)
      [] ty.tag = "ForAll" -> FreeVarsOfTy(ty.ty, binders + ty.num_binders, sort)
      [] OTHER -> <<>>

FreeVarsOfValue(value, sort) ==
    IF value.tag = "TyLocalTo"
    THEN FreeVarsOfTy(value.value, 0, sort)
            \o (IF OfSort(sort, "Krate") /\ value.krate.tag = "Var"
                THEN <<value.krate.depth>> ELSE <<>>)
    ELSE FreeVarsOfTy(value, 0, sort)

\* The sequence without the later occurrences of its elements.
Dedupe(seq) ==
    IF seq = <<>> THEN <<>>
    ELSE LET front == SubSeq(seq, 1, Len(seq) - 1)
             x == seq[Len(seq)]
         IN  IF \E i \in 1..Len(front) : front[i] = x
             THEN Dedupe(front)
             ELSE Append(Dedupe(front), x)

Sorts == {"Ty", "Lifetime", "Krate"}

Upto(n) == [i \in 1..n |-> i - 1]

BindersOf(binders, sort) ==
    CASE sort = "Ty" -> binders.tys
      [] sort = "Lifetime" -> binders.lifetimes
      [] sort = "Krate" -> binders.krates

\* The value with every bound variable replaced by its value and every
\* unbound one by the representative of its class.
ResolveValue(t, value) ==
    IF value.tag = "TyLocalTo"
    THEN TyLocalTo(ResolveTy(t, value.value, 0, Fuel), ResolveVar(t.krate, value.krate, 0))
    ELSE ResolveTy(t, value, 0, Fuel)

RECURSIVE RenumberTy(_, _, _)

\* A free variable under `binders` binders, renamed to the place of its
\* index in `roots`.
RenumberVar(term, binders, roots) ==
    IF term.tag = "Var" /\ term.depth >= binders
    THEN [term EXCEPT !.depth = Position(roots, term.depth - binders) - 1 + binders]
    ELSE term

\* The type with each free variable renamed to the place of its index in the
\* sequence of its sort: roots.tys, roots.lifetimes, roots.krates.
RenumberTy(ty, binders, roots) ==
    CASE ty.tag = "Var" -> RenumberVar(ty, binders, roots.tys)
      [] ty.tag \in {"Apply", "Projection"} ->
            [ty EXCEPT !.parameters =
                [i \in 1..Len(ty.parameters) |->
                    LET p == ty.parameters[i]
                    IN  CASE p.kind = "Ty" -> PTy(RenumberTy(p.v, binders, roots))
                          [] p.kind = "Lifetime" ->
                                PLifetime(RenumberVar(p.v, binders, roots.lifetimes))
                          [] p.kind = "Krate" ->
                                PKrate(RenumberVar(p.v, binders, roots.krates))]]
      [] ty.tag = "ForAll" ->
            ForAll(ty.num_binders, RenumberTy(ty.ty, binders + ty.num_binders, roots))

RenumberValue(value, roots) ==
    IF value.tag = "TyLocalTo"
    THEN TyLocalTo(RenumberTy(value.value, 0, roots),
                   RenumberVar(value.krate, 0, roots.krates))
    ELSE RenumberTy(value, 0, roots)

MadeQuery == last.op = "make_query"

\* C7 as stated: the indices of the free variables of the value of a query,
\* of whatever sort, are 0, 1, .. up to the number of binders, in the order
\* they first appear.
C7_Original ==
    MadeQuery =>
        Dedupe(FreeVarsOfValue(last.query.value, "Any"))
            = Upto(Len(FlatBinders(last.query.binders)))

\* C7, amended: for each sort, the indices of the free variables of that sort
\* in the value of a query are 0, 1, .. up to the number of binders of that
\* sort, in the order they first appear.
C7_DensePerSort ==
    MadeQuery =>
        LET indices(sort) == Dedupe(FreeVarsOfValue(last.query.value, sort))
            dense(sort) == Upto(Len(BindersOf(last.query.binders, sort)))
        IN  \A sort \in Sorts : indices(sort) = dense(sort)

\* A query with a type variable and a lifetime variable, met out of the order
\* of the table.
C7_WitnessOrder ==
    /\ MadeQuery
    /\ last.value = Pair(TyVar(2), TyVar(0))
    /\ last.query.value = Pair(TyVar(0), TyVar(1))
    /\ Len(last.query.binders.tys) = 2

C7_Witness ==
    /\ MadeQuery
    /\ Len(last.query.binders.tys) = 1
    /\ Len(last.query.binders.lifetimes) = 1
    /\ Dedupe(FreeVarsOfValue(last.query.value, "Any")) = <<0>>

\* C8: the value of a query, taken in the table new_with_vars makes from the
\* binders of the query, has that same query as its query.
C8_Idempotent ==
    MadeQuery =>
        LET q == last.query
            r == make_query(new_with_vars(q.binders), q.value)
        IN  r.res = "ok" /\ r.query = q

\* A query with a free variable under a binder, and a bound variable
\* replaced by its value.
C8_Witness ==
    /\ MadeQuery
    /\ last.value = ForAll(1, Foo(TyVar(1)))
    /\ \/ last.query = [value |-> ForAll(1, Foo(TyVar(1))),
                        binders |-> [tys |-> <<0>>, lifetimes |-> <<>>, krates |-> <<>>]]
       \/ last.query.value = ForAll(1, Foo(Foo(TyVar(1))))

\* C9: the binders of a query are, for each sort, the universes of the
\* distinct unbound representatives met in the resolved value, in the order
\* they are first met; the types come first, then the lifetimes, then the
\* krates.  The value of the query is the resolved value with each
\* representative renamed to the place of its binder.
C9_Binders ==
    MadeQuery =>
        LET resolved == ResolveValue(table, last.value)
            roots(sort) == Dedupe(FreeVarsOfValue(resolved, sort))
            expect(sort) ==
                [i \in 1..Len(roots(sort)) |-> probe_value(UFOf(table, sort), roots(sort)[i]).ui]
            b == last.query.binders
        IN  /\ \A sort \in Sorts : BindersOf(b, sort) = expect(sort)
            /\ last.query.value
                  = RenumberValue(resolved, [tys |-> roots("Ty"),
                                             lifetimes |-> roots("Lifetime"),
                                             krates |-> roots("Krate")])
            /\ \A sort \in Sorts :
                  \A i \in 1..Len(roots(sort)) :
                      IsUnbound(UFOf(table, sort), roots(sort)[i])
            /\ FlatBinders(b)
                  = [i \in 1..Len(expect("Ty")) |-> [kind |-> "Ty", v |-> expect("Ty")[i]]]
                      \o [i \in 1..Len(expect("Lifetime")) |->
                              [kind |-> "Lifetime", v |-> expect("Lifetime")[i]]]
                      \o [i \in 1..Len(expect("Krate")) |->
                              [kind |-> "Krate", v |-> expect("Krate")[i]]]

\* Two variables of one class in the value: one binder.
C9_Witness ==
    /\ MadeQuery
    /\ last.value = Pair(TyVar(0), TyVar(1))
    /\ unioned(table.ty, 0, 1)
    /\ IsUnbound(table.ty, 0)
    /\ Len(last.query.binders.tys) = 1

(***************************************************************************)
(* Statements about elaborated_clauses.                                    *)
(***************************************************************************)
\* S holds the clauses of the environment and, with a clause, the clauses
\* that the two rules of elaboration derive from it.
Closed(S) ==
    /\ \A i \in 1..Len(env.clauses) : env.clauses[i] \in S
    /\ \A c \in S :
          IF c.tag = "Implemented"
          THEN \A i \in 1..Len(ImpliedByImplemented(program, c)) :
                  ImpliedByImplemented(program, c)[i] \in S
          ELSE ImpliedByNormalize(program, c) \in S

\* C10: when elaborated_clauses returns, the clauses it yields are a closed
\* set, no smaller set is closed, and no clause is yielded twice.
C10_LeastClosure ==
    pc = "done" =>
        LET S == DOMAIN returned
        IN  /\ Closed(S)
            /\ \A T \in SUBSET S : Closed(T) => T = S
            /\ \A c \in S : returned[c] = 1

\* A return with clauses derived by both rules, from a projection that has
\* a parameter of its own.
C10_Witness ==
    /\ pc = "done"
    /\ \E c \in DOMAIN returned :
          /\ c.tag = "Normalize"
          /\ Len(c.projection.parameters) = 2
          /\ Implemented("Iter", <<PTy(Foo(Bar))>>) \in DOMAIN returned
    /\ Cardinality(DOMAIN returned) > Cardinality({env.clauses[i] : i \in 1..Len(env.clauses)}) + 1

\* C11: elaborated_clauses terminates for every program and environment: the
\* stack becomes empty and the call returns.
C11_Terminates == <>(pc = "done")

\* The loop at work on the chain of trait Grow where Vec<Self>: Grow: the
\* clause on top of the stack is nested deeper than every clause of the
\* environment and of the program, and each clause of the chain before it
\* is in the set.
C11_Witness ==
    /\ pc = "loop"
    /\ stack # <<>>
    /\ stack[Len(stack)] = Implemented("Grow", <<PTy(Vec(Vec(Vec(Bar))))>>)
    /\ {Implemented("Grow", <<PTy(Bar)>>),
        Implemented("Grow", <<PTy(Vec(Bar))>>),
        Implemented("Grow", <<PTy(Vec(Vec(Bar)))>>)} \subseteq set

\* C12: elaboration is monotone: when the call on env.add_clauses(W) returns,
\* it yields every clause of W and every clause elaborated_clauses(env)
\* yields, for every environment and clause list the receiver is made of.
C12_Monotone ==
    pc = "done" =>
        \A W \in ClauseLists : \A clauses \in ClauseLists :
            LET base == Environment(env.universe, clauses)
            IN  add_clauses(base, W) = env =>
                    /\ elaborated_clauses(base, program) \subseteq DOMAIN returned
                    /\ \A i \in 1..Len(W) : W[i] \in DOMAIN returned

\* A return for env.add_clauses(W) where env and W hold one clause each,
\* elaboration derives clauses from each, and W brings clauses that
\* elaborated_clauses(env) does not yield.
C12_Witness ==
    /\ pc = "done"
    /\ Len(env.clauses) = 2
    /\ LET base == Environment(env.universe, SubSeq(env.clauses, 1, 1))
           W == SubSeq(env.clauses, 2, 2)
       IN  /\ add_clauses(base, W) = env
           /\ Cardinality(elaborated_clauses(base, program)) > 1
           /\ W[1] \notin elaborated_clauses(base, program)
           /\ Cardinality(DOMAIN returned) > Cardinality(elaborated_clauses(base, program)) + 1

(***************************************************************************)
(* Statements about the register of the current program.                   *)
(***************************************************************************)
\* C13: what with_current_program observes during the op of
\* set_current_program(p, op) is p, and once no call is in progress the
\* register holds no program, however op was left.
C13_Scoped ==
    /\ \A i \in DOMAIN observed :
          observed[i].during # <<>> =>
              observed[i].value = Some(observed[i].during[Len(observed[i].during)])
    /\ frames = <<>> => PROGRAM = None

\* An op that observed its program and left with an Err: the register is
\* cleared.
C13_Witness ==
    /\ outcome = "Err"
    /\ frames = <<>>
    /\ PROGRAM = None
    /\ \E i \in DOMAIN observed :
          /\ Len(observed[i].during) = 1
          /\ observed[i].value = Some(observed[i].during[1])

(***************************************************************************)
(* Statements about environments.                                          *)
(***************************************************************************)
\* C14: add_clauses and new_universe return a new environment and leave the
\* receiver, and every other environment, as it was; add_clauses keeps the
\* universe and appends the given clauses after the existing ones, so the
\* receiver shows none of the added clauses it did not hold before.
C14_Immutable ==
    envop.op # "none" =>
        LET before == envop.before
            self == envop.self
            new == arcs[Len(arcs)]
        IN  /\ Len(arcs) = Len(before) + 1
            /\ \A i \in DOMAIN before : arcs[i] = before[i]
            /\ arcs[self].universe = before[self].universe
            /\ arcs[self].clauses = before[self].clauses
            /\ envop.op = "add_clauses" =>
                  /\ new.universe = before[self].universe
                  /\ new.clauses = before[self].clauses \o envop.clauses

\* add_clauses on an environment that holds clauses, with a clause the
\* receiver does not hold.
C14_Witness ==
    /\ envop.op = "add_clauses"
    /\ Len(arcs) = MaxArcs
    /\ arcs[envop.self].clauses # <<>>
    /\ \E i \in DOMAIN envop.clauses :
          \A j \in DOMAIN arcs[envop.self].clauses :
              arcs[envop.self].clauses[j] # envop.clauses[i]

(***************************************************************************)
(* Statements about unify on lifetimes.                                    *)
(***************************************************************************)
\* C15: a call of unify on two lifetimes returns Ok; on two skolem lifetimes
\* it leaves the table as it was, with no constraint when they are of the
\* same universe and with the one constraint LifetimeEq(a, b) in the
\* environment of the call when they are not.
C15_LifetimesNeverFail ==
    (last.op = "unify" /\ last.sort = "Lifetime") =>
        /\ last.res = "ok"
        /\ (last.a.tag = "ForAll" /\ last.b.tag = "ForAll") =>
              /\ table = last.pre
              /\ last.goals = <<>>
              /\ last.constraints =
                    IF last.a.ui = last.b.ui THEN <<>>
                    ELSE <<InEnvironment(last.environment, LifetimeEq(last.a, last.b))>>

\* A call on two skolem lifetimes of different universes, on a table in
\* which an earlier call bound a variable.
C15_Witness ==
    /\ last.op = "unify"
    /\ last.sort = "Lifetime"
    /\ last.a = LifetimeForAll(2)
    /\ last.b = LifetimeForAll(1)
    /\ Len(last.constraints) = 1
    /\ \E v \in 0..(NumVars(table.lifetime) - 1) : IsBound(table.lifetime, v)

(***************************************************************************)
(* Statements about MatchClause.                                           *)
(***************************************************************************)
\* C16: every attempt starts from the table made of the query's binders and
\* from the query's goal and environment, whatever the attempts before it
\* did; an attempt whose unification of goal and clause fails returns that
\* error, without a call of solve_all and without a refined goal.
C16_LocalErrors ==
    \A i \in DOMAIN attempts :
        LET self == attempts[i].self
            unified == unify(new_with_vars(query.binders), query.value.environment,
                             "WhereClause", query.value.goal, self.clause)
        IN  /\ self.fulfill.infer = new_with_vars(query.binders)
            /\ self.fulfill.obligations = <<>>
            /\ self.goal = query.value.goal
            /\ self.environment = query.value.environment
            /\ (attempts[i].pc = "returned" /\ unified.res = "err") =>
                  /\ attempts[i].out.v.res = "err"
                  /\ attempts[i].out.v.msg = unified.msg
                  /\ ~attempts[i].out.v.solved_all
                  /\ attempts[i].out.v.solution = None

\* An attempt that failed in unify after it had bound a variable, followed
\* by an attempt on another clause that returned a refined goal.
C16_Witness ==
    /\ Len(attempts) = 2
    /\ attempts[1].pc = "returned"
    /\ attempts[1].out.v.res = "err"
    /\ ~attempts[1].out.v.solved_all
    /\ attempts[1].self.clause = Implemented("Conv", <<PTy(Foo(TyVar(1))), PTy(TyVar(0))>>)
    /\ query.value.goal = Implemented("Conv", <<PTy(TyVar(0)), PTy(TyVar(1))>>)
    /\ IsBound(unify(new_with_vars(query.binders), query.value.environment, "WhereClause",
                     query.value.goal, attempts[1].self.clause).zipped.ty, 0)
    /\ attempts[2].pc = "returned"
    /\ attempts[2].out.v.res = "ok"
    /\ attempts[2].out.v.solution.v.refined_goal # query.value

(***************************************************************************)
(* Statements about the overlap check of lowering.                         *)
(***************************************************************************)
\* Two impls of one trait apply to a common trait reference and neither is
\* strictly more specific than the other.
ClaimedOverlap(prog, a, b) ==
    /\ a.trait_id = b.trait_id
    /\ applies(prog, a, MaxImplDepth) \cap applies(prog, b, MaxImplDepth) # {}
    /\ ~strictly_more_specific(prog, a, b)
    /\ ~strictly_more_specific(prog, b, a)

VarForAllCall ==
    /\ last.op = "unify"
    /\ last.sort = "Lifetime"
    /\ last.a.tag # last.b.tag
    /\ ~IsBound(last.pre.lifetime, IF last.a.tag = "Var" THEN last.a.depth ELSE last.b.depth)

\* C18: a call of unify on an unbound lifetime variable of universe ui and
\* the skolem lifetime ForAll(u), in either order, returns Ok; when u <= ui
\* the variable is bound to ForAll(u) and there is no constraint, otherwise
\* the variable is as unbound as before and the one constraint is
\* LifetimeEq(a, b) in the environment of the call.
C18_VarForAll ==
    VarForAllCall =>
        LET depth == IF last.a.tag = "Var" THEN last.a.depth ELSE last.b.depth
            u == IF last.a.tag = "Var" THEN last.b.ui ELSE last.a.ui
            ui == probe_value(last.pre.lifetime, depth).ui
        IN  /\ last.res = "ok"
            /\ last.goals = <<>>
            /\ IF u <= ui
               THEN /\ probe_value(table.lifetime, depth).tag = "Bound"
                    /\ probe_value(table.lifetime, depth).val = LifetimeForAll(u)
                    /\ last.constraints = <<>>
               ELSE /\ probe_value(table.lifetime, depth) = Unbound(ui)
                    /\ table = last.pre
                    /\ last.constraints =
                          <<InEnvironment(last.environment, LifetimeEq(last.a, last.b))>>

\* A call on a skolem lifetime the variable cannot see, variable second, on
\* a table in which an earlier call in the other order bound the other
\* variable to a skolem lifetime it can see.
C18_Witness ==
    /\ VarForAllCall
    /\ last.a = LifetimeForAll(2)
    /\ last.b = LifetimeVar(0)
    /\ probe_value(last.pre.lifetime, 0) = Unbound(1)
    /\ Len(last.constraints) = 1
    /\ IsBound(table.lifetime, 1)
    /\ probe_value(table.lifetime, 1).val = LifetimeForAll(1)

(***************************************************************************)
(* Statements about unify on quantified types.                             *)
(***************************************************************************)
\* The type as unify_ty_ty matches on it: the value of a bound variable.
Normalized(t, ty) == IF normalize(t.ty, ty).some THEN normalize(t.ty, ty).v ELSE ty

\* The call was on two quantified types.
ForAllForAllCall ==
    /\ last.op = "unify"
    /\ last.sort = "Ty"
    /\ Normalized(last.pre, last.a).tag = "ForAll"
    /\ Normalized(last.pre, last.b).tag = "ForAll"

\* The ways of giving n binders the parameters of S, each once.
Replacements(S) == {[i \in 1..Cardinality(S) |-> PLifetime(order[i])] : order \in Orders(S)}

ForAllApplyCall ==
    /\ last.op = "unify"
    /\ last.sort = "Ty"
    /\ {Normalized(last.pre, last.a).tag, Normalized(last.pre, last.b).tag}
          = {"ForAll", "Apply"}

\* C20: a call of unify on ForAll(q) and an Apply type, in either order,
\* returns Ok and leaves the table as it was; the one sub-goal is UnifyTys
\* of q's body, its binders replaced by the skolem lifetimes of the
\* universes env.universe + 1 .. env.universe + q.num_binders, and the
\* Apply type as it is, in an environment of universe
\* env.universe + q.num_binders.
C20_ForAllApply ==
    ForAllApplyCall =>
        LET a == Normalized(last.pre, last.a)
            b == Normalized(last.pre, last.b)
            q == IF a.tag = "ForAll" THEN a ELSE b
            apply == IF a.tag = "ForAll" THEN b ELSE a
            e == last.environment
            skolems == {LifetimeForAll(e.universe + i) : i \in 1..q.num_binders}
        IN  /\ last.res = "ok"
            /\ table = last.pre
            /\ last.constraints = <<>>
            /\ Len(last.goals) = 1
            /\ last.goals[1].environment.universe = e.universe + q.num_binders
            /\ last.goals[1].goal.tag = "UnifyTys"
            /\ last.goals[1].goal.a \in
                  {QuantifiedTy_subst(q, ls) : ls \in Replacements(skolems)}
            /\ last.goals[1].goal.b = apply

\* A call on an Apply type and, second, for<'a, 'b> Ref2<'b, 'a>, in an
\* environment of universe 1, on a table in which an earlier call bound the
\* type variable.
C20_Witness ==
    /\ ForAllApplyCall
    /\ last.a = Ref2(LifetimeVar(0), LifetimeForAll(1))
    /\ last.b = ForAll(MaxBinders, Ref2(LifetimeVar(1), LifetimeVar(0)))
    /\ last.environment.universe = 1
    /\ Len(last.goals) = 1
    /\ last.goals[1].goal.a = Ref2(LifetimeForAll(3), LifetimeForAll(2))
    /\ IsBound(table.ty, 0)

(***************************************************************************)
(* Statements about unify on projections.                                  *)
(***************************************************************************)
\* The call was on a projection and a projection.
ProjectionProjectionCall ==
    /\ last.op = "unify"
    /\ last.sort = "Ty"
    /\ Normalized(last.pre, last.a).tag = "Projection"
    /\ Normalized(last.pre, last.b).tag = "Projection"

\* The call was on a projection and an Apply, a ForAll or an unbound
\* variable, in either order.
ProjectionOtherCall ==
    /\ last.op = "unify"
    /\ last.sort = "Ty"
    /\ (Normalized(last.pre, last.a).tag = "Projection")
          # (Normalized(last.pre, last.b).tag = "Projection")

\* C21: a call of unify on a projection returns Ok and every variable of the
\* table is as before the call.  On two projections the table has one more
\* type variable ?v, unbound in the universe of the environment, and the
\* sub-goals are Normalize(proj1 -> ?v), Normalize(proj2 -> ?v) in this
\* order; on a projection and another type X, in either order, the table is
\* as before and the one sub-goal is Normalize(proj -> X), whatever X holds.
\* The sub-goals are in the environment of the call.
C21_Projections ==
    /\ ProjectionProjectionCall =>
          LET proj1 == Normalized(last.pre, last.a)
              proj2 == Normalized(last.pre, last.b)
              v == NumVars(last.pre.ty)
          IN  /\ last.res = "ok"
              /\ table.lifetime = last.pre.lifetime
              /\ table.krate = last.pre.krate
              /\ NumVars(table.ty) = v + 1
              /\ \A w \in 0..(v - 1) :
                    /\ probe_value(table.ty, w) = probe_value(last.pre.ty, w)
                    /\ find(table.ty, w) = find(last.pre.ty, w)
              /\ find(table.ty, v) = v
              /\ probe_value(table.ty, v) = Unbound(last.environment.universe)
              /\ last.constraints = <<>>
              /\ last.goals = <<InEnvironment(last.environment, Normalize(proj1, TyVar(v))),
                                InEnvironment(last.environment, Normalize(proj2, TyVar(v)))>>
    /\ ProjectionOtherCall =>
          LET a == Normalized(last.pre, last.a)
              b == Normalized(last.pre, last.b)
              proj == IF a.tag = "Projection" THEN a ELSE b
              x == IF a.tag = "Projection" THEN b ELSE a
          IN  /\ last.res = "ok"
              /\ table = last.pre
              /\ last.constraints = <<>>
              /\ last.goals = <<InEnvironment(last.environment, Normalize(proj, x))>>

\* A call on two projections, the first out of an unbound variable of
\* universe 0, in an environment of universe 1: the new variable is of
\* universe 1.
C21_Witness ==
    /\ ProjectionProjectionCall
    /\ last.environment.universe = 1
    /\ last.a = Item(TyVar(0))
    /\ last.b = Item(Bar)
    /\ probe_value(table.ty, 0) = Unbound(0)
    /\ NumVars(table.ty) = 2
    /\ probe_value(table.ty, 1) = Unbound(1)
    /\ Len(last.goals) = 2

(***************************************************************************)
(* Statements about unify on two type variables.                           *)
(***************************************************************************)
\* The call was on two type variables, unbound before the call.
VarVarCall ==
    /\ last.op = "unify"
    /\ last.sort = "Ty"
    /\ last.a.tag = "Var"
    /\ last.b.tag = "Var"
    /\ ~IsBound(last.pre.ty, last.a.depth)
    /\ ~IsBound(last.pre.ty, last.b.depth)

\* Variables that resolve to the same representative keep doing so, with
\* the same value.
StayUnioned ==
    \A a \in 0..(NumVars(table.ty) - 1), b \in 0..(NumVars(table.ty) - 1) :
        unioned(table.ty, a, b) =>
            /\ unioned(table'.ty, a, b)
            /\ probe_value(table'.ty, a) = probe_value(table'.ty, b)

\* C22: a call of unify on two unbound type variables returns Ok, without
\* sub-goal or constraint; after it the two resolve to the same
\* representative, whose value is Unbound with the smaller of the two
\* universes they had; and in every later step of the table they still
\* resolve to one representative and one value.
C22_VarVar ==
    /\ [](VarVarCall =>
            /\ last.res = "ok"
            /\ last.goals = <<>>
            /\ last.constraints = <<>>
            /\ unioned(table.ty, last.a.depth, last.b.depth)
            /\ probe_value(table.ty, last.a.depth) =
                  Unbound(Min(probe_value(last.pre.ty, last.a.depth).ui,
                              probe_value(last.pre.ty, last.b.depth).ui))
            /\ probe_value(table.ty, last.b.depth) = probe_value(table.ty, last.a.depth))
    /\ [][StayUnioned]_vars

\* A call on two variables of universes 1 and 0, this order, that were not
\* unioned before: the class is of universe 0.
C22_Witness ==
    /\ VarVarCall
    /\ ~unioned(last.pre.ty, last.a.depth, last.b.depth)
    /\ probe_value(last.pre.ty, last.a.depth) = Unbound(1)
    /\ probe_value(last.pre.ty, last.b.depth) = Unbound(0)
    /\ probe_value(table.ty, last.a.depth) = Unbound(0)
    /\ calls = MaxCalls

(***************************************************************************)
(* Statements about the universes of the skolem types in a bound value.    *)
(***************************************************************************)
RECURSIVE NameUniversesOfTy(_)

\* The universes of the names of the Apply types in a type: that of a
\* skolem name, and 0 for the name of an item or an associated type.
NameUniversesOfTy(ty) ==
    CASE ty.tag = "Apply" ->
            {IF ty.name.tag = "ForAll" THEN ty.name.ui ELSE 0}
                \cup UNION {IF ty.parameters[i].kind = "Ty"
                            THEN NameUniversesOfTy(ty.parameters[i].v) ELSE {} :
                                i \in 1..Len(ty.parameters)}
      [] ty.tag = "Projection" ->
            UNION {IF ty.parameters[i].kind = "Ty"
                   THEN NameUniversesOfTy(ty.parameters[i].v) ELSE {} :
                       i \in 1..Len(ty.parameters)}
      [] ty.tag = "ForAll" -> NameUniversesOfTy(ty.ty)
      [] OTHER -> {}

\* The call binds ?v to ty, and ty, read through the values of the
\* variables it mentions in the table of before the call, holds an Apply
\* with the name of a skolem that ?v cannot see.
BindsToHigherSkolem(v, ty) ==
    /\ BindsVarTo(v, ty)
    /\ \E u \in NameUniversesOfTy(ResolveTy(last.pre, ty, 0, Fuel)) :
          u > probe_value(last.pre.ty, v).ui

\* C23: a call that binds an unbound type variable of universe ui to a type
\* holding, at any depth and through the values of the variables it
\* mentions, an Apply named by a skolem of a universe above ui returns the
\* error "incompatible universes" and leaves the variable unbound; a call
\* that binds it to a type whose Apply names are all of universe 0 does not
\* return that error.
C23_SkolemNames ==
    \A v \in TyVarIds(table), ty \in OccursTys :
        /\ BindsToHigherSkolem(v, ty) =>
              /\ last.res = "err"
              /\ last.msg = "incompatible universes"
              /\ IsUnbound(table.ty, v)
        /\ (/\ BindsVarTo(v, ty)
            /\ NameUniversesOfTy(ResolveTy(last.pre, ty, 0, Fuel)) \subseteq {0})
              => last.msg # "incompatible universes"

\* The universe check has refused to bind ?0 of universe 0 to Foo<?1>, ?1
\* being bound to the skolem type of universe 1.
C23_Witness ==
    /\ BindsToHigherSkolem(0, Foo(TyVar(1)))
    /\ IsBound(last.pre.ty, 1)
    /\ probe_value(last.pre.ty, 1).val = Skolem(1)
    /\ last.res = "err"
    /\ last.msg = "incompatible universes"
    /\ IsUnbound(table.ty, 0)

(***************************************************************************)
(* Statements about the environments unify returns.                        *)
(***************************************************************************)
\* C24: new_universe of the environment of a call is that environment with
\* its universe plus 1, and every sub-goal and every constraint a call of
\* unify returns is in an environment of a universe not below that of the
\* call, with the clauses of the environment of the call.
C24_UniversesGrow ==
    UnifyOk =>
        /\ new_universe(last.environment) =
              Environment(last.environment.universe + 1, last.environment.clauses)
        /\ \A i \in DOMAIN last.goals :
              /\ last.goals[i].environment.universe >= last.environment.universe
              /\ last.goals[i].environment.clauses = last.environment.clauses
        /\ \A i \in DOMAIN last.constraints :
              /\ last.constraints[i].environment.universe >= last.environment.universe
              /\ last.constraints[i].environment.clauses = last.environment.clauses

\* A call in an environment with a clause has returned a sub-goal in an
\* environment two universes up, on a table on which an earlier call had
\* bound the type variable.
C24_Witness ==
    /\ UnifyOk
    /\ last.environment.clauses # <<>>
    /\ Len(last.goals) = 1
    /\ last.goals[1].environment.universe = last.environment.universe + MaxBinders
    /\ NumVars(last.pre.ty) > 0
    /\ IsBound(last.pre.ty, 0)

(***************************************************************************)
(* Statements about the occurs check under binders.                        *)
(***************************************************************************)
\* The type holds, read through the table with Var(i) under k binders as
\* variable i - k, a variable of the class of ?v, or its reading does not
\* end.
MentionsClassOf(t, v, ty) ==
    \/ ResolveTy(t, ty, 0, Fuel) = Cyclic
    \/ \E w \in TyVarsOfTy(ResolveTy(t, ty, 0, Fuel), 0) :
          HasVar(t.ty, w) /\ unioned(t.ty, w, v)

\* C25: the occurs check of a call that binds ?v of universe ui to ty acts
\* on Var(i) under k binders as on variable i - k: the call returns, it
\* returns an error exactly when ty read through the values of these
\* variables holds a variable of the class of ?v or an Apply named by a
\* skolem above ui, and after Ok the unbound variables of that reading are
\* of universes <= ui.
C25_ShiftedVars ==
    \A v \in TyVarIds(table), ty \in OccursTys :
        BindsVarTo(v, ty) =>
            LET ui == probe_value(last.pre.ty, v).ui
                resolved == ResolveTy(last.pre, ty, 0, Fuel)
            IN  /\ last.res # "panic"
                /\ last.res = "err" <=>
                      \/ MentionsClassOf(last.pre, v, ty)
                      \/ \E u \in NameUniversesOfTy(resolved) : u > ui
                /\ last.res = "ok" =>
                      \A w \in TyVarsOfTy(resolved, 0) :
                          probe_value(table.ty, w).ui <= ui

\* The cycle test has met ?0 as Var(1) under one binder: the call that
\* binds ?0 to forall<'a> Foo<?0> returns the error of a cycle.
C25_Witness ==
    /\ BindsVarTo(0, ForAll(1, Foo(TyVar(1))))
    /\ IsUnbound(last.pre.ty, 1)
    /\ last.res = "err"
    /\ last.msg = "cycle during unification"

(***************************************************************************)
(* Statements about the snapshot of a call of unify.                       *)
(***************************************************************************)
\* C26: while a call of unify is under way the snapshots of the table are
\* those of before the call and, on top, the one the call opened, which
\* holds the table of before the call; when the call has returned, by
\* commit after Ok and by rollback after an error, the snapshots are those
\* of before the call again, those of the user of the table untouched.
C26_OneSnapshot ==
    /\ last.op \in {"Unifier_new", "zip_with"} =>
          /\ last.snapshot = Len(table.snapshots)
          /\ table.snapshots = snapshot(last.pre).snapshots
    /\ last.op = "unify" =>
          /\ table.snapshots = last.pre.snapshots
          /\ last.res = "err" => table = last.pre

\* A call has returned an error after it changed the table, on a table of
\* which the user holds a snapshot taken after an earlier call.
C26_Witness ==
    /\ last.op = "unify"
    /\ last.res = "err"
    /\ calls = MaxCalls
    /\ Len(table.snapshots) = 1
    /\ \E v \in TyVarIds(table) : IsBound(table.snapshots[1].ty, v)

(***************************************************************************)
(* Statements about the universes of unbound type variables.               *)
(***************************************************************************)
\* The call that returned has lowered the universe of ?v, unbound before and
\* after it.
Lowered(v) ==
    /\ IsUnbound(last.pre.ty, v)
    /\ IsUnbound(table.ty, v)
    /\ probe_value(table.ty, v).ui < probe_value(last.pre.ty, v).ui

\* C27: after a call of unify that returns, every type variable that was
\* unbound before it and still is has a universe not above the one it had;
\* where it is below, the call returned Ok and either unioned the variable
\* with another one, or bound a variable, of a universe that is now its
\* own.
C27_UniversesShrink ==
    (UnifyReturned /\ last.res # "panic") =>
        \A v \in TyVarIds(last.pre) :
            /\ (IsUnbound(last.pre.ty, v) /\ IsUnbound(table.ty, v)) =>
                  probe_value(table.ty, v).ui <= probe_value(last.pre.ty, v).ui
            /\ Lowered(v) =>
                  /\ last.res = "ok"
                  /\ \E w \in TyVarIds(last.pre) :
                        /\ IsUnbound(last.pre.ty, w)
                        /\ probe_value(last.pre.ty, w).ui = probe_value(table.ty, v).ui
                        /\ \/ unioned(table.ty, v, w) /\ ~unioned(last.pre.ty, v, w)
                           \/ IsBound(table.ty, w)

\* A call that promoted ?1 from universe 1 to universe 0 and then failed
\* has returned: ?1 is of universe 1 again.
C27_Witness ==
    /\ UnifyErr
    /\ IsUnbound(last.zipped.ty, 1)
    /\ probe_value(last.pre.ty, 1) = Unbound(1)
    /\ probe_value(last.zipped.ty, 1) = Unbound(0)
    /\ probe_value(table.ty, 1) = Unbound(1)

(***************************************************************************)
(* Statements about the commands of chalki.                                *)
(***************************************************************************)
\* The command is `program` or `load <path>`, the path possibly empty.
LoadsProgram(command) ==
    \/ command = ProgramCommand
    \/ /\ Len(command) >= 5
       /\ <<command[1], command[2], command[3], command[4], command[5]>>
             = <<"l", "o", "a", "d", " ">>

\* C28: the loaded program is another one after a command only when the
\* command was `program` or `load <path>` and returned Ok; after a `program`
\* or `load` that returned an error, and after every other command, it is
\* the program of before; and a command other than help, program and load
\* given while no program is loaded returns the error "no program currently
\* loaded" and starts no solver.
C28_ProgramChanges ==
    shell.history > 0 =>
        /\ loaded # shell.pre => (LoadsProgram(shell.command) /\ shell.res = "ok")
        /\ (LoadsProgram(shell.command) /\ shell.res = "ok") => loaded.some
        /\ (/\ ~shell.pre.some
            /\ shell.command # HelpCommand
            /\ ~LoadsProgram(shell.command))
              => /\ shell.res = "err"
                 /\ shell.msg = "no program currently loaded"
                 /\ ~shell.solver

\* A load of a file that does not parse has failed with a program loaded:
\* that program is still loaded.
C28_Witness ==
    /\ shell.history > 1
    /\ shell.command = LoadPrefix \o <<"b">>
    /\ shell.res = "err"
    /\ shell.pre.some
    /\ loaded = shell.pre

====
